---- MODULE Spec2Model ----
(***************************************************************************)
(* A model of the parsegen construction pipeline: finite automata          *)
(* (combinators, subset construction, row-equivalence simplification),     *)
(* lexer assembly, and the LALR(1) builder with Pager's lane tracing.      *)
(* Indices are 0-based as in the C++ source: At(v, i) is at(v, i).         *)
(***************************************************************************)
EXTENDS Integers, Sequences, FiniteSets, TLC

VARIABLES
    pc,        \* position of the modelled driver
    fa,        \* finite_automaton under construction / input automaton
    dfa,       \* result of make_deterministic
    sdfa,      \* result of simplify
    vstack,    \* value stack of regex::parser (automata being reduced)
    result_token,  \* regex::parser::result_token
    lexer,     \* the lexer of build_lexer
    token_dfas, \* build_dfa's result for every token handled so far
    grammar,   \* the grammar handed to build_lalr1_parser
    pip,       \* parser_in_progress: configs, states, state_configs
    tracing,   \* locals of build_lalr1_parser and compute_context_set
    tables,    \* shift_reduce_tables filled by accept_parser
    language,  \* the language handed to build_grammar and build_indent_info
    indent_info, \* the indentation of build_indent_info
    regex,     \* the text from_automaton printed
    statics,   \* the function-local statics of ask_parser_tables and ask_language
    threads    \* the callers of ask_parser_tables: position and locals of each

vars == <<pc, fa, dfa, sdfa, vstack, result_token, lexer, token_dfas,
          grammar, pip, tracing, tables, language, indent_info, regex, statics, threads>>

automaton_vars == <<fa, dfa, sdfa, vstack, result_token, lexer, token_dfas>>
parser_vars == <<grammar, pip, tracing, tables>>
language_vars == <<language, indent_info, regex>>
memo_vars == <<statics, threads>>

\* nothing of the parser builder is in use
NoParser == grammar = <<>> /\ pip = <<>> /\ tracing = <<>> /\ tables = <<>>

\* no language has been handed over
NoLanguage == language = <<>> /\ indent_info = <<>> /\ regex = <<>>

\* ask_parser_tables is not in use
NoMemo == statics = <<>> /\ threads = <<>>

(***************************************************************************)
(* Bounds of the model.                                                    *)
(***************************************************************************)
MaxStates == 3        \* states of a hand-built automaton
MaxTransitions == 3   \* add_transition calls on a hand-built automaton
NSymbols == 2         \* alphabet size of the modelled automata
MaxToken == 1         \* token ids are 0..MaxToken
MaxLen == 3           \* length of the input strings that are run
MaxNfaStates == 8     \* total states on the regex parser's value stack
MaxTokenNfaStates == 5  \* the same, for the regex of a token of a language
MaxLexTokens == 2     \* tokens of a language

Symbols == 0 .. (NSymbols - 1)
Tokens == 0 .. MaxToken

\* at(v, i) of parsegen_std_vector.hpp: 0-based element access
At(v, i) == v[i + 1]

\* the element of a set of one element
only(S) == CHOOSE x \in S : TRUE

RECURSIVE SetToSeq(_)
\* iteration order of a std::set<int>: ascending
SetToSeq(S) ==
    IF S = {} THEN <<>>
    ELSE LET m == CHOOSE x \in S : \A y \in S : x <= y
         IN <<m>> \o SetToSeq(S \ {m})

RECURSIVE StringsUpTo(_)
StringsUpTo(n) ==
    IF n = 0 THEN {<<>>}
    ELSE LET P == StringsUpTo(n - 1)
         IN P \cup {Append(s, a) : s \in {p \in P : Len(p) = n - 1}, a \in Symbols}

Strings == StringsUpTo(MaxLen)

(***************************************************************************)
(* finite_automaton: a dense table nstates x ncols and accepted_tokens.    *)
(* asserted records that an assert of add_transition failed.               *)
(***************************************************************************)
NoFA == [is_deterministic |-> TRUE, ncols |-> 0, table |-> <<>>,
         accepted_tokens |-> <<>>, asserted |-> FALSE]

finite_automaton(nsymbols_init, is_deterministic_init) ==
    [is_deterministic |-> is_deterministic_init,
     ncols |-> nsymbols_init + (IF is_deterministic_init THEN 0 ELSE 2),
     table |-> <<>>, accepted_tokens |-> <<>>, asserted |-> FALSE]

get_nstates(a) == Len(a.table)
get_ncols(a) == a.ncols
get_nsymbols(a) == a.ncols - (IF a.is_deterministic THEN 0 ELSE 2)
get_determinism(a) == a.is_deterministic
get_epsilon0(a) == a.ncols - 2
get_epsilon1(a) == a.ncols - 1
get_nsymbols_eps(a) == a.ncols

add_state(a) ==
    [a EXCEPT !.table = Append(@, [j \in 1 .. a.ncols |-> -1]),
              !.accepted_tokens = Append(@, -1)]

\* the asserts of add_transition abort the build; with asserts compiled out
\* the cell is overwritten
add_transition(a, from_state, at_symbol, to_state) ==
    [a EXCEPT !.table[from_state + 1][at_symbol + 1] = to_state,
              !.asserted = @ \/ ~(0 <= to_state /\ to_state < get_nstates(a))
                             \/ ~(0 <= at_symbol /\ at_symbol < a.ncols)
                             \/ a.table[from_state + 1][at_symbol + 1] # -1]

add_accept(a, state, token) ==
    [a EXCEPT !.accepted_tokens[state + 1] = token]

\* remove_accept that leaves the accept token
remove_accept_never(a, state) == a

remove_accept(a, state) ==
    [a EXCEPT !.accepted_tokens[state + 1] = -1]

step(a, state, symbol) == At(At(a.table, state), symbol)

accepts(a, state) == At(a.accepted_tokens, state)

\* where a loop over the symbols of a state goes on after symbol: the next
\* symbol the state has a transition on, or ncols when it has none (the
\* iterations in between change nothing)
next_transition(a, state, symbol) ==
    LET rest == {s \in (symbol + 1) .. (a.ncols - 1) : step(a, state, s) # -1}
    IN IF rest = {} THEN a.ncols ELSE CHOOSE s \in rest : \A t \in rest : s <= t

RECURSIVE append_transitions(_, _, _, _, _)
\* second loop of append_states, from (other_state, symbol) on
append_transitions(a, other, offset, other_state, symbol) ==
    IF other_state >= get_nstates(other) THEN a
    ELSE IF symbol >= get_nsymbols_eps(other)
         THEN append_transitions(a, other, offset, other_state + 1, 0)
    ELSE LET other_next == step(other, other_state, symbol)
         IN IF other_next < 0
            THEN append_transitions(a, other, offset, other_state,
                                    next_transition(other, other_state, symbol))
            ELSE append_transitions(
                   add_transition(a, other_state + offset, symbol, other_next + offset),
                   other, offset, other_state, symbol + 1)

RECURSIVE append_accepts(_, _, _)
\* first loop of append_states, from other_state on
append_accepts(a, other, other_state) ==
    IF other_state >= get_nstates(other) THEN a
    ELSE LET a1 == add_state(a)
             my_state == get_nstates(a)
             token == accepts(other, other_state)
         IN append_accepts(
              IF 0 <= token THEN add_accept(a1, my_state, token) ELSE a1,
              other, other_state + 1)

append_states(a, other) ==
    only({append_transitions(appended, o, get_nstates(x), 0, 0) :
             appended \in {append_accepts(x, o, 0) : x \in {a}, o \in {other}},
             x \in {a}, o \in {other}})

RECURSIVE add_range_transitions(_, _, _, _, _)
add_range_transitions(a, start_state, i, range_end, accept_state) ==
    IF i > range_end THEN a
    ELSE add_range_transitions(add_transition(a, start_state, i, accept_state),
                               start_state, i + 1, range_end, accept_state)

make_range_nfa(nsymbols, range_start, range_end, token) ==
    LET out == add_state(add_state(finite_automaton(nsymbols, TRUE)))
    IN add_accept(add_range_transitions(out, 0, range_start, range_end, 1), 1, token)

make_single_nfa(nsymbols, symbol, token) ==
    make_range_nfa(nsymbols, symbol, symbol, token)

RECURSIVE add_set_transitions(_, _, _, _)
add_set_transitions(a, start_state, accepted, accept_state) ==
    IF accepted = <<>> THEN a
    ELSE add_set_transitions(add_transition(a, start_state, Head(accepted), accept_state),
                             start_state, Tail(accepted), accept_state)

make_set_nfa(nsymbols, accepted, token) ==
    LET out == add_state(add_state(finite_automaton(nsymbols, TRUE)))
    IN add_accept(add_set_transitions(out, 0, SetToSeq(accepted), 1), 1, token)

unite(a, b) ==
    LET out0 == add_state(finite_automaton(get_nsymbols(a), FALSE))
        a_offset == get_nstates(out0)
        out1 == append_states(out0, a)
        b_offset == get_nstates(out1)
        out2 == append_states(out1, b)
    IN add_transition(add_transition(out2, 0, get_epsilon0(out2), a_offset),
                      0, get_epsilon1(out2), b_offset)

RECURSIVE concat_a(_, _, _, _)
concat_a(out, a, b_offset, i) ==
    IF i >= get_nstates(a) THEN out
    ELSE IF accepts(a, i) # -1
         THEN concat_a(remove_accept(add_transition(out, i, get_epsilon0(out), b_offset), i),
                       a, b_offset, i + 1)
         ELSE concat_a(out, a, b_offset, i + 1)

RECURSIVE concat_b(_, _, _, _, _)
concat_b(out, b, b_offset, token, i) ==
    IF i >= get_nstates(b) THEN out
    ELSE IF accepts(b, i) # -1
         THEN concat_b(add_accept(out, i + b_offset, token), b, b_offset, token, i + 1)
         ELSE concat_b(out, b, b_offset, token, i + 1)

concat(a, b, token) ==
    LET out0 == append_states(finite_automaton(get_nsymbols(a), FALSE), a)
        b_offset == get_nstates(out0)
        out1 == append_states(out0, b)
    IN concat_b(concat_a(out1, a, b_offset, 0), b, b_offset, token, 0)

RECURSIVE plus_loop(_, _, _, _)
plus_loop(out, a, new_accept_state, i) ==
    IF i >= get_nstates(a) THEN out
    ELSE IF accepts(a, i) # -1
         THEN plus_loop(
                remove_accept(
                  add_transition(
                    add_transition(out, i, get_epsilon0(out), new_accept_state),
                    i, get_epsilon1(out), 0), i),
                a, new_accept_state, i + 1)
         ELSE plus_loop(out, a, new_accept_state, i + 1)

RECURSIVE plus_once_loop(_, _, _, _)
plus_once_loop(out, a, new_accept_state, i) ==
    IF i >= get_nstates(a) THEN out
    ELSE IF accepts(a, i) # -1
         THEN plus_once_loop(
                remove_accept(add_transition(out, i, get_epsilon0(out), new_accept_state), i),
                a, new_accept_state, i + 1)
         ELSE plus_once_loop(out, a, new_accept_state, i + 1)

\* plus without the transitions back to the start state
plus_once(a, token) ==
    LET out0 == append_states(finite_automaton(get_nsymbols(a), FALSE), a)
        new_accept_state == get_nstates(out0)
        out1 == add_accept(add_state(out0), new_accept_state, token)
    IN plus_once_loop(out1, a, new_accept_state, 0)

plus(a, token) ==
    LET out0 == append_states(finite_automaton(get_nsymbols(a), FALSE), a)
        new_accept_state == get_nstates(out0)
        out1 == add_accept(add_state(out0), new_accept_state, token)
    IN plus_loop(out1, a, new_accept_state, 0)

RECURSIVE maybe_loop(_, _, _, _, _)
\* the epsilon0 linked list of maybe; returns <<out, last>>
maybe_loop(out, a, offset, last, i) ==
    IF i >= get_nstates(a) THEN <<out, last>>
    ELSE IF accepts(a, i) # -1
         THEN maybe_loop(
                remove_accept(add_transition(out, last, get_epsilon0(out), i + offset),
                              i + offset),
                a, offset, i + offset, i + 1)
         ELSE maybe_loop(out, a, offset, last, i + 1)

maybe(a, token) ==
    LET out0 == add_state(finite_automaton(get_nsymbols(a), FALSE))
        new_start_state == 0
        offset == get_nstates(out0)
        out1 == append_states(out0, a)
        new_accept_state == get_nstates(out1)
        out2 == add_transition(add_state(out1), new_start_state, get_epsilon1(out1), offset)
        r == maybe_loop(out2, a, offset, new_start_state, 0)
    IN add_accept(add_transition(r[1], r[2], get_epsilon0(out2), new_accept_state),
                  new_accept_state, token)

\* star without the empty repetition
star_once(a, token) == plus(a, token)

star(a, token) == maybe(plus(a, token), token)

(***************************************************************************)
(* Subset construction.                                                    *)
(***************************************************************************)
\* static step(StateSet, symbol, fa)
step_set(ss, symbol, a) ==
    {step(a, state, symbol) : state \in {q \in ss : step(a, q, symbol) # -1}}

RECURSIVE epsilon_closure_loop(_, _, _)
\* the while (!q.empty()) loop of get_epsilon_closure
epsilon_closure_loop(ss, q, a) ==
    IF q = <<>> THEN ss
    ELSE LET state == Head(q)
             n0 == step(a, state, get_epsilon0(a))
             add0 == n0 # -1 /\ n0 \notin ss
             ss0 == IF add0 THEN ss \cup {n0} ELSE ss
             q0 == IF add0 THEN Append(Tail(q), n0) ELSE Tail(q)
             n1 == step(a, state, get_epsilon1(a))
             add1 == n1 # -1 /\ n1 \notin ss0
             ss1 == IF add1 THEN ss0 \cup {n1} ELSE ss0
             q1 == IF add1 THEN Append(q0, n1) ELSE q0
         IN epsilon_closure_loop(ss1, q1, a)

\* get_epsilon_closure that never queues the states it finds
get_epsilon_closure_one_hop(ss, a) ==
    ss \cup ({step(a, q, e) : q \in ss, e \in {get_epsilon0(a), get_epsilon1(a)}} \ {-1})

get_epsilon_closure(ss, a) == epsilon_closure_loop(ss, SetToSeq(ss), a)

\* StateSetPtr2State::find: the state of an interned set, or -1
find_state_set(ssupv, ss) ==
    IF \E i \in 1 .. Len(ssupv) : ssupv[i] = ss
    THEN (CHOOSE i \in 1 .. Len(ssupv) : ssupv[i] = ss) - 1
    ELSE -1

\* min_accepted with the comparison reversed
min_accepted_max(ss, nfa) ==
    LET toks == {accepts(nfa, q) : q \in ss} \ {-1}
    IN IF toks = {} THEN -1
       ELSE CHOOSE t \in toks : \A u \in toks : t >= u

\* the minimum accept token among the members of a state set, or -1
min_accepted(ss, nfa) ==
    LET toks == {accepts(nfa, q) : q \in ss} \ {-1}
    IN IF toks = {} THEN -1
       ELSE CHOOSE t \in toks : \A u \in toks : t <= u

\* where the loop over the symbols of a state set goes on after symbol: the
\* next symbol some member has a transition on, or nsymbols
next_step_symbol(ss, symbol, nfa) ==
    LET rest == {s \in (symbol + 1) .. (get_nsymbols(nfa) - 1) : step_set(ss, s, nfa) # {}}
    IN IF rest = {} THEN get_nsymbols(nfa) ELSE CHOOSE s \in rest : \A t \in rest : s <= t

RECURSIVE make_deterministic_loop(_, _, _, _, _)
\* the while (front < size(ssupv)) loop; symbol is the inner loop's index
make_deterministic_loop(nfa, ssupv, out, front, symbol) ==
    IF front >= Len(ssupv) THEN out
    ELSE LET ss == At(ssupv, front)
         IN IF symbol >= get_nsymbols(nfa)
            THEN LET m == min_accepted(ss, nfa)
                 IN make_deterministic_loop(nfa, ssupv,
                      IF m # -1 THEN add_accept(out, front, m) ELSE out,
                      front + 1, 0)
            ELSE LET next_ss0 == step_set(ss, symbol, nfa)
                 IN IF next_ss0 = {}
                    THEN make_deterministic_loop(nfa, ssupv, out, front,
                                                 next_step_symbol(ss, symbol, nfa))
                    ELSE LET next_ss == get_epsilon_closure(next_ss0, nfa)
                             found == find_state_set(ssupv, next_ss)
                             is_new == found = -1
                             next_state == IF is_new THEN get_nstates(out) ELSE found
                             out1 == IF is_new THEN add_state(out) ELSE out
                             ssupv1 == IF is_new THEN Append(ssupv, next_ss) ELSE ssupv
                         IN make_deterministic_loop(nfa, ssupv1,
                              add_transition(out1, front, symbol, next_state),
                              front, symbol + 1)

make_deterministic(nfa) ==
    IF get_determinism(nfa) THEN nfa
    ELSE LET start_ss == get_epsilon_closure({0}, nfa)
             out == add_state(finite_automaton(get_nsymbols(nfa), TRUE))
         IN make_deterministic_loop(nfa, <<start_ss>>, out, 0, 0)

(***************************************************************************)
(* Row-equivalence simplification.                                         *)
(***************************************************************************)
\* state_row_compare that leaves the accept tokens out
state_row_equal_rows_only(a, x, y) == At(a.table, x) = At(a.table, y)

\* neither a < b nor b < a under state_row_compare
state_row_equal(a, x, y) ==
    /\ accepts(a, x) = accepts(a, y)
    /\ At(a.table, x) = At(a.table, y)

RECURSIVE build_sr2ss_adjacent(_, _, _, _)
\* sr2ss that finds a duplicate row only in the state just before
build_sr2ss_adjacent(a, state, sr2ss, nsimple) ==
    IF state >= get_nstates(a) THEN sr2ss
    ELSE IF state >= 1 /\ accepts(a, state - 1) = accepts(a, state)
                       /\ At(a.table, state - 1) = At(a.table, state)
         THEN build_sr2ss_adjacent(a, state + 1, Append(sr2ss, At(sr2ss, state - 1)), nsimple)
         ELSE build_sr2ss_adjacent(a, state + 1, Append(sr2ss, nsimple), nsimple + 1)

RECURSIVE build_sr2ss(_, _, _, _)
\* first loop of simplify_once: sr2ss as a sequence state -> simple state
build_sr2ss(a, state, sr2ss, nsimple) ==
    IF state >= get_nstates(a) THEN sr2ss
    ELSE IF \E p \in 0 .. (state - 1) : state_row_equal(a, p, state)
         THEN LET p == CHOOSE p \in 0 .. (state - 1) : state_row_equal(a, p, state)
              IN build_sr2ss(a, state + 1, Append(sr2ss, At(sr2ss, p)), nsimple)
         ELSE build_sr2ss(a, state + 1, Append(sr2ss, nsimple), nsimple + 1)

RECURSIVE add_states(_, _)
add_states(a, n) == IF n = 0 THEN a ELSE add_states(add_state(a), n - 1)

RECURSIVE simplify_once_loop(_, _, _, _, _, _)
\* second loop of simplify_once, from (state, symbol) on
simplify_once_loop(a, sr2ss, out, did_simple, state, symbol) ==
    IF state >= get_nstates(a) THEN out
    ELSE LET simple == At(sr2ss, state)
         IN IF simple \in did_simple
            THEN simplify_once_loop(a, sr2ss, out, did_simple, state + 1, 0)
            ELSE IF symbol >= get_nsymbols_eps(a)
            THEN LET token == accepts(a, state)
                 IN simplify_once_loop(a, sr2ss,
                      IF token # -1 THEN add_accept(out, simple, token) ELSE out,
                      did_simple \cup {simple}, state + 1, 0)
            ELSE LET next_state == step(a, state, symbol)
                 IN IF next_state = -1
                    THEN simplify_once_loop(a, sr2ss, out, did_simple, state,
                                            next_transition(a, state, symbol))
                    ELSE simplify_once_loop(a, sr2ss,
                           add_transition(out, simple, symbol, At(sr2ss, next_state)),
                           did_simple, state, symbol + 1)

simplify_once(a) ==
    LET sr2ss == build_sr2ss(a, 0, <<>>, 0)
        nsimple == Cardinality({sr2ss[i] : i \in 1 .. Len(sr2ss)})
        out == add_states(finite_automaton(get_nsymbols(a), get_determinism(a)), nsimple)
    IN simplify_once_loop(a, sr2ss, out, {}, 0, 0)

RECURSIVE simplify_loop(_, _)
\* the do-while of simplify: out is the automaton, nstates_new its state count
simplify_loop(out, nstates_new) ==
    LET nstates == nstates_new
        out1 == simplify_once(out)
    IN IF get_nstates(out1) < nstates
       THEN simplify_loop(out1, get_nstates(out1))
       ELSE out1

\* simplify without its loop
simplify_single_pass(a) == simplify_once(a)

simplify(a) == simplify_loop(a, get_nstates(a))

\* running a deterministic automaton on a string from state 0: the accept
\* token of the state reached, -1 when the run dies or ends in no accept
RECURSIVE run_from(_, _, _)
run_from(a, state, s) ==
    IF state = -1 THEN -1
    ELSE IF s = <<>> THEN accepts(a, state)
    ELSE run_from(a, step(a, state, Head(s)), Tail(s))

run(a, s) == run_from(a, 0, s)

(***************************************************************************)
(* SpecAutomaton: an automaton is built by hand with add_state,            *)
(* add_transition and add_accept, then determinized, then simplified.      *)
(***************************************************************************)
ntransitions(a) ==
    Cardinality({<<i, j>> \in (1 .. get_nstates(a)) \X (1 .. a.ncols) : a.table[i][j] # -1})

InitAutomaton ==
    /\ pc = "build"
    /\ fa \in {finite_automaton(NSymbols, d) : d \in BOOLEAN}
    /\ dfa = NoFA
    /\ sdfa = NoFA
    /\ vstack = <<>>
    /\ result_token = 0
    /\ lexer = NoFA
    /\ token_dfas = <<>>
    /\ NoParser
    /\ NoLanguage
    /\ NoMemo

AddState ==
    /\ pc = "build"
    /\ get_nstates(fa) < MaxStates
    /\ fa' = add_state(fa)
    /\ UNCHANGED <<pc, dfa, sdfa, vstack, result_token, lexer, token_dfas>>
    /\ UNCHANGED <<parser_vars, language_vars, memo_vars>>

AddTransition ==
    /\ pc = "build"
    /\ ntransitions(fa) < MaxTransitions
    /\ \E from_state \in 0 .. (get_nstates(fa) - 1), at_symbol \in 0 .. (fa.ncols - 1),
          to_state \in 0 .. (get_nstates(fa) - 1) :
            /\ step(fa, from_state, at_symbol) = -1
            /\ fa' = add_transition(fa, from_state, at_symbol, to_state)
    /\ UNCHANGED <<pc, dfa, sdfa, vstack, result_token, lexer, token_dfas>>
    /\ UNCHANGED <<parser_vars, language_vars, memo_vars>>

AddAccept ==
    /\ pc = "build"
    /\ \E state \in 0 .. (get_nstates(fa) - 1), token \in Tokens :
            /\ accepts(fa, state) = -1
            /\ fa' = add_accept(fa, state, token)
    /\ UNCHANGED <<pc, dfa, sdfa, vstack, result_token, lexer, token_dfas>>
    /\ UNCHANGED <<parser_vars, language_vars, memo_vars>>

\* state 0 is the start state: an automaton that is run has one
MakeDeterministic ==
    /\ pc = "build"
    /\ get_nstates(fa) >= 1
    /\ dfa' = make_deterministic(fa)
    /\ pc' = "deterministic"
    /\ UNCHANGED <<fa, sdfa, vstack, result_token, lexer, token_dfas>>
    /\ UNCHANGED <<parser_vars, language_vars, memo_vars>>

Simplify ==
    /\ pc = "deterministic"
    /\ sdfa' = simplify(dfa)
    /\ pc' = "simplified"
    /\ UNCHANGED <<fa, dfa, vstack, result_token, lexer, token_dfas>>
    /\ UNCHANGED <<parser_vars, language_vars, memo_vars>>

NextAutomaton ==
    \/ AddState
    \/ AddTransition
    \/ AddAccept
    \/ MakeDeterministic
    \/ Simplify

SpecAutomaton == InitAutomaton /\ [][NextAutomaton]_vars

(***************************************************************************)
(* Reference semantics of a nondeterministic automaton, stated on sets of  *)
(* states: the states reachable from state 0 on a string.                  *)
(***************************************************************************)
EpsilonColumns(n) ==
    IF n.is_deterministic THEN {} ELSE {get_epsilon0(n), get_epsilon1(n)}

RECURSIVE EpsilonReach(_, _)
EpsilonReach(n, S) ==
    LET T == S \cup {q \in 0 .. (get_nstates(n) - 1) :
                       \E p \in S, e \in EpsilonColumns(n) : step(n, p, e) = q}
    IN IF T = S THEN S ELSE EpsilonReach(n, T)

RECURSIVE ReachOn(_, _, _)
ReachOn(n, S, s) ==
    IF s = <<>> THEN EpsilonReach(n, S)
    ELSE LET R == EpsilonReach(n, S)
             M == {q \in 0 .. (get_nstates(n) - 1) : \E p \in R : step(n, p, Head(s)) = q}
         IN ReachOn(n, M, Tail(s))

\* the accept tokens of the states of n reachable on s
TokensOn(n, s) == {accepts(n, q) : q \in ReachOn(n, {0}, s)} \ {-1}

\* the token n gives s: the smallest accept token reachable, -1 when none
NfaToken(n, s) ==
    LET toks == TokensOn(n, s)
    IN IF toks = {} THEN -1 ELSE CHOOSE t \in toks : \A u \in toks : t <= u

(***************************************************************************)
(* C1: for every NFA N and every string s, make_deterministic(N) run on s  *)
(* from state 0 accepts iff N accepts s, and then with the minimum accept  *)
(* token among the N-states reachable on s.                                *)
(***************************************************************************)
C1_DeterminizePreservesTokens ==
    pc = "deterministic" =>
        /\ dfa.is_deterministic
        /\ \A s \in Strings : run(dfa, s) = NfaToken(fa, s)

\* an NFA with an epsilon transition on which some string reaches two
\* different accept tokens, determinized
C1_Witness ==
    /\ pc = "deterministic"
    /\ ~fa.is_deterministic
    /\ \E q \in 0 .. (get_nstates(fa) - 1) : step(fa, q, get_epsilon0(fa)) # -1
    /\ \E s \in Strings : Cardinality(TokensOn(fa, s)) >= 2 /\ run(dfa, s) = 0

(***************************************************************************)
(* C2: for every DFA D and every string s, simplify(D) run from its state  *)
(* 0 gives s the same accept decision and token as D run from its state 0  *)
(* (the group of D's state 0 is state 0 of the result).                    *)
(***************************************************************************)
C2_SimplifyPreservesTokens ==
    pc = "simplified" =>
        /\ \A s \in Strings : run(sdfa, s) = run(dfa, s)
        /\ At(build_sr2ss(dfa, 0, <<>>, 0), 0) = 0

\* a simplification that merged states of an automaton accepting something
C2_Witness ==
    /\ pc = "simplified"
    /\ get_nstates(sdfa) < get_nstates(dfa)
    /\ \E s \in Strings : Len(s) >= 2 /\ run(dfa, s) # -1

(***************************************************************************)
(* C3: in the automaton returned by simplify no two distinct states have   *)
(* the same (accept_token, transition row) signature.                      *)
(***************************************************************************)
RowsDistinct(a) ==
    \A x, y \in 0 .. (get_nstates(a) - 1) :
        x # y => \/ At(a.accepted_tokens, x) # At(a.accepted_tokens, y)
                 \/ At(a.table, x) # At(a.table, y)

C3_SimplifiedRowsDistinct ==
    pc = "simplified" => RowsDistinct(sdfa)

\* a simplification that needed a second merging pass
C3_Witness ==
    /\ pc = "simplified"
    /\ get_nstates(sdfa) < get_nstates(simplify_once(dfa))

(***************************************************************************)
(* SpecRegex: regex::parser::reduce.  The parser's value stack holds the   *)
(* automata of the sub-expressions reduced so far; every reduction pops    *)
(* its operands and pushes the combinator's result, and the final          *)
(* reduction (PROD_REGEX) determinizes and simplifies.                     *)
(***************************************************************************)
RECURSIVE stack_states(_)
stack_states(st) ==
    IF st = <<>> THEN 0 ELSE get_nstates(Head(st)) + stack_states(Tail(st))

top(st) == st[Len(st)]
below(st) == st[Len(st) - 1]
pop(st, n) == SubSeq(st, 1, Len(st) - n)

InitRegex ==
    /\ pc = "parse"
    /\ vstack = <<>>
    /\ result_token \in Tokens
    /\ fa = NoFA
    /\ dfa = NoFA
    /\ sdfa = NoFA
    /\ lexer = NoFA
    /\ token_dfas = <<>>
    /\ NoParser
    /\ NoLanguage
    /\ NoMemo

\* PROD_SINGLE_CHAR: make_char_single_nfa
ReduceSingleChar(limit) ==
    /\ pc = "parse"
    /\ stack_states(vstack) + 2 <= limit
    /\ \E symbol \in Symbols :
          vstack' = Append(vstack, make_range_nfa(NSymbols, symbol, symbol, result_token))
    /\ UNCHANGED <<pc, fa, dfa, sdfa, result_token, lexer, token_dfas>>
    /\ UNCHANGED <<parser_vars, language_vars, memo_vars>>

\* PROD_ANY
ReduceAny(limit) ==
    /\ pc = "parse"
    /\ stack_states(vstack) + 2 <= limit
    /\ vstack' = Append(vstack, make_range_nfa(NSymbols, 0, NSymbols - 1, result_token))
    /\ UNCHANGED <<pc, fa, dfa, sdfa, result_token, lexer, token_dfas>>
    /\ UNCHANGED <<parser_vars, language_vars, memo_vars>>

\* PROD_SINGLE_SET: make_char_set_nfa of a positive or negated set
ReduceSingleSet(limit) ==
    /\ pc = "parse"
    /\ stack_states(vstack) + 2 <= limit
    /\ \E accepted \in SUBSET Symbols :
          vstack' = Append(vstack, make_set_nfa(NSymbols, accepted, result_token))
    /\ UNCHANGED <<pc, fa, dfa, sdfa, result_token, lexer, token_dfas>>
    /\ UNCHANGED <<parser_vars, language_vars, memo_vars>>

\* PROD_UNION
ReduceUnion(limit) ==
    /\ pc = "parse"
    /\ Len(vstack) >= 2
    /\ stack_states(vstack) + 1 <= limit
    /\ vstack' = Append(pop(vstack, 2), unite(below(vstack), top(vstack)))
    /\ UNCHANGED <<pc, fa, dfa, sdfa, result_token, lexer, token_dfas>>
    /\ UNCHANGED <<parser_vars, language_vars, memo_vars>>

\* PROD_CONCAT
ReduceConcat ==
    /\ pc = "parse"
    /\ Len(vstack) >= 2
    /\ vstack' = Append(pop(vstack, 2), concat(below(vstack), top(vstack), result_token))
    /\ UNCHANGED <<pc, fa, dfa, sdfa, result_token, lexer, token_dfas>>
    /\ UNCHANGED <<parser_vars, language_vars, memo_vars>>

\* PROD_STAR
ReduceStar(limit) ==
    /\ pc = "parse"
    /\ Len(vstack) >= 1
    /\ stack_states(vstack) + 3 <= limit
    /\ vstack' = Append(pop(vstack, 1), star(top(vstack), result_token))
    /\ UNCHANGED <<pc, fa, dfa, sdfa, result_token, lexer, token_dfas>>
    /\ UNCHANGED <<parser_vars, language_vars, memo_vars>>

\* PROD_PLUS
ReducePlus(limit) ==
    /\ pc = "parse"
    /\ Len(vstack) >= 1
    /\ stack_states(vstack) + 1 <= limit
    /\ vstack' = Append(pop(vstack, 1), plus(top(vstack), result_token))
    /\ UNCHANGED <<pc, fa, dfa, sdfa, result_token, lexer, token_dfas>>
    /\ UNCHANGED <<parser_vars, language_vars, memo_vars>>

\* PROD_MAYBE
ReduceMaybe(limit) ==
    /\ pc = "parse"
    /\ Len(vstack) >= 1
    /\ stack_states(vstack) + 2 <= limit
    /\ vstack' = Append(pop(vstack, 1), maybe(top(vstack), result_token))
    /\ UNCHANGED <<pc, fa, dfa, sdfa, result_token, lexer, token_dfas>>
    /\ UNCHANGED <<parser_vars, language_vars, memo_vars>>

\* PROD_REGEX: simplify(make_deterministic(rhs[0]))
ReduceRegex ==
    /\ pc = "parse"
    /\ Len(vstack) = 1
    /\ fa' = top(vstack)
    /\ dfa' = make_deterministic(top(vstack))
    /\ sdfa' = simplify(make_deterministic(top(vstack)))
    /\ vstack' = <<>>
    /\ pc' = "reduced"
    /\ UNCHANGED <<result_token, lexer, token_dfas>>
    /\ UNCHANGED <<parser_vars, language_vars, memo_vars>>

NextRegex ==
    \/ ReduceSingleChar(MaxNfaStates)
    \/ ReduceAny(MaxNfaStates)
    \/ ReduceSingleSet(MaxNfaStates)
    \/ ReduceUnion(MaxNfaStates)
    \/ ReduceConcat
    \/ ReduceStar(MaxNfaStates)
    \/ ReducePlus(MaxNfaStates)
    \/ ReduceMaybe(MaxNfaStates)
    \/ ReduceRegex

SpecRegex == InitRegex /\ [][NextRegex]_vars

(***************************************************************************)
(* Equivalence of the states of a deterministic automaton: two states are  *)
(* equivalent when every string gets the same token from both.  The dead   *)
(* state -1 stands for a missing transition.                               *)
(***************************************************************************)
DfaStates(a) == 0 .. (get_nstates(a) - 1)

TokenAt(a, x) == IF x = -1 THEN -1 ELSE accepts(a, x)

Successor(a, x, symbol) == IF x = -1 THEN -1 ELSE step(a, x, symbol)

RECURSIVE Distinguished(_, _)
Distinguished(a, D) ==
    LET Q == DfaStates(a) \cup {-1}
        E == D \cup {p \in Q \X Q :
                       \E symbol \in 0 .. (get_nsymbols(a) - 1) :
                          <<Successor(a, p[1], symbol), Successor(a, p[2], symbol)>> \in D}
    IN IF E = D THEN D ELSE Distinguished(a, E)

EquivalentPairs(a) ==
    LET Q == DfaStates(a) \cup {-1}
        D0 == {p \in Q \X Q : TokenAt(a, p[1]) # TokenAt(a, p[2])}
    IN {p \in DfaStates(a) \X DfaStates(a) : p[1] # p[2]} \ Distinguished(a, D0)

(***************************************************************************)
(* C4 as claimed: simplify(make_deterministic(N)) is a minimal DFA for     *)
(* every NFA N built by the combinators: no two distinct states of the     *)
(* result are equivalent.                                                  *)
(***************************************************************************)
C4_SimplifiedIsMinimal ==
    pc = "reduced" => EquivalentPairs(sdfa) = {}

(***************************************************************************)
(* C4 as amended: in simplify(make_deterministic(N)) two distinct states   *)
(* that are equivalent differ in their successor on some symbol: the       *)
(* result has no two states with the same accept token and the same        *)
(* transition row, but it keeps states that are equivalent only through    *)
(* different successors.                                                   *)
(***************************************************************************)
C4_EquivalentStatesDifferInRow ==
    pc = "reduced" =>
        \A p \in EquivalentPairs(sdfa) :
            \E symbol \in 0 .. (get_nsymbols(sdfa) - 1) :
                step(sdfa, p[1], symbol) # step(sdfa, p[2], symbol)

\* a reduced regex whose automaton keeps two equivalent states
C4_Witness ==
    /\ pc = "reduced"
    /\ ~fa.is_deterministic
    /\ \E p \in EquivalentPairs(sdfa) : accepts(sdfa, p[1]) # -1

(***************************************************************************)
(* SpecLexer: build_lexer.  Every token's regex is parsed with             *)
(* result_token = the token's index and reduced to its DFA (build_dfa);    *)
(* the DFAs are united in declaration order; the union is determinized     *)
(* and simplified.                                                         *)
(***************************************************************************)
InitLexer ==
    /\ pc = "parse"
    /\ vstack = <<>>
    /\ result_token = 0
    /\ fa = NoFA
    /\ dfa = NoFA
    /\ sdfa = NoFA
    /\ lexer = NoFA
    /\ token_dfas = <<>>
    /\ NoParser
    /\ NoLanguage
    /\ NoMemo

\* one iteration of the loop of build_lexer: build_dfa(name, regex, i), whose
\* last reduction is PROD_REGEX, and the unite with the lexer so far
BuildTokenDfa ==
    /\ pc = "parse"
    /\ Len(vstack) = 1
    /\ LET i == result_token
           d == simplify(make_deterministic(top(vstack)))
       IN /\ lexer' = IF i = 0 THEN d ELSE unite(lexer, d)
          /\ token_dfas' = Append(token_dfas, d)
          /\ result_token' = i + 1
    /\ vstack' = <<>>
    /\ UNCHANGED <<pc, fa, dfa, sdfa>>
    /\ UNCHANGED <<parser_vars, language_vars, memo_vars>>

\* the tail of build_lexer
FinishLexer ==
    /\ pc = "parse"
    /\ vstack = <<>>
    /\ Len(token_dfas) >= 1
    /\ lexer' = simplify(make_deterministic(lexer))
    /\ pc' = "lexer"
    /\ UNCHANGED <<fa, dfa, sdfa, vstack, result_token, token_dfas>>
    /\ UNCHANGED <<parser_vars, language_vars, memo_vars>>

MoreTokens == result_token < MaxLexTokens

NextLexer ==
    \/ MoreTokens /\ ReduceSingleChar(MaxTokenNfaStates)
    \/ MoreTokens /\ ReduceAny(MaxTokenNfaStates)
    \/ MoreTokens /\ ReduceSingleSet(MaxTokenNfaStates)
    \/ ReduceUnion(MaxTokenNfaStates)
    \/ ReduceConcat
    \/ ReduceStar(MaxTokenNfaStates)
    \/ ReducePlus(MaxTokenNfaStates)
    \/ ReduceMaybe(MaxTokenNfaStates)
    \/ BuildTokenDfa
    \/ FinishLexer

SpecLexer == InitLexer /\ [][NextLexer]_vars

\* the declaration indices of the tokens whose DFA accepts s
AcceptingTokens(s) == {i \in 0 .. (Len(token_dfas) - 1) : run(At(token_dfas, i), s) # -1}

(***************************************************************************)
(* C5: the lexer built by build_lexer accepts a string iff at least one    *)
(* token's DFA accepts it, and reports the smallest declaration index      *)
(* among the tokens whose DFA accepts it.                                  *)
(***************************************************************************)
C5_LexerReportsFirstDeclaredToken ==
    pc = "lexer" =>
        \A s \in Strings :
            LET T == AcceptingTokens(s)
            IN IF T = {} THEN run(lexer, s) = -1
               ELSE /\ run(lexer, s) \in T
                    /\ \A i \in T : run(lexer, s) <= i

\* a lexer of two tokens that overlap on one string and differ on another
C5_Witness ==
    /\ pc = "lexer"
    /\ \E s \in Strings : AcceptingTokens(s) = {0, 1} /\ run(lexer, s) = 0
    /\ \E s \in Strings : AcceptingTokens(s) = {1} /\ run(lexer, s) = 1

(***************************************************************************)
(* Grammars.  A language is its token names in declaration order (of a     *)
(* token only the name is read here), its productions over names, and the  *)
(* names of its ignored tokens.  build_grammar numbers the tokens          *)
(* 0 .. ntokens-1 in declaration order and the left-hand sides after them  *)
(* in the order their first production appears, appends the end terminal   *)
(* after the tokens (moving the nonterminals up by one) and the accept     *)
(* production accept ::= start end as the last production.                 *)
(***************************************************************************)
NTokens == 2          \* tokens of a generated language
NNonterminals == 2    \* nonterminals of a generated language
MaxProductions == 3   \* productions of a generated language
MaxRhs == 2           \* right-hand side length in a generated language

Range(v) == {v[i] : i \in 1 .. Len(v)}

RECURSIVE Flatten(_)
\* the concatenation of a sequence of sequences
Flatten(vs) == IF vs = <<>> THEN <<>> ELSE Head(vs) \o Flatten(Tail(vs))

is_terminal(g, symbol) == symbol < g.nterminals
get_end_terminal(g) == g.nterminals - 1
get_accept_production(g) == Len(g.productions) - 1
get_accept_nonterminal(g) == g.nsymbols - 1

\* add_end_terminal: the end terminal takes the id after the tokens
add_end_terminal(g) ==
    LET moved(symbol) == IF symbol >= g.nterminals THEN symbol + 1 ELSE symbol
    IN [g EXCEPT !.nterminals = @ + 1,
                 !.nsymbols = @ + 1,
                 !.productions =
                     [i \in 1 .. Len(@) |->
                         [lhs |-> moved(@[i].lhs),
                          rhs |-> [k \in 1 .. Len(@[i].rhs) |-> moved(@[i].rhs[k])]]]]

\* add_accept_production: accept ::= start end, start being the lhs of the
\* first production
add_accept_production(g) ==
    [g EXCEPT !.nsymbols = @ + 1,
              !.productions =
                  Append(@, [lhs |-> g.nsymbols,
                             rhs |-> <<g.productions[1].lhs, get_end_terminal(g)>>])]

\* symbol_map[name] = id, replacing what the name was mapped to
map_insert(symbol_map, name, id) ==
    [n \in DOMAIN symbol_map \cup {name} |-> IF n = name THEN id ELSE symbol_map[n]]

RECURSIVE map_tokens(_, _, _)
\* the loop over language.tokens
map_tokens(tokens, symbol_map, nterminals) ==
    IF nterminals = Len(tokens) THEN symbol_map
    ELSE map_tokens(tokens, map_insert(symbol_map, tokens[nterminals + 1], nterminals),
                    nterminals + 1)

RECURSIVE map_left_hand_sides(_, _, _, _)
\* the loop over language.productions that numbers the left-hand sides; it
\* aborts on an empty left-hand side
map_left_hand_sides(productions, i, symbol_map, nsymbols) ==
    IF i = Len(productions)
    THEN [aborted |-> FALSE, symbol_map |-> symbol_map, nsymbols |-> nsymbols]
    ELSE IF At(productions, i).lhs = ""
    THEN [aborted |-> TRUE, symbol_map |-> symbol_map, nsymbols |-> nsymbols]
    ELSE IF At(productions, i).lhs \in DOMAIN symbol_map
    THEN map_left_hand_sides(productions, i + 1, symbol_map, nsymbols)
    ELSE map_left_hand_sides(productions, i + 1,
                             map_insert(symbol_map, At(productions, i).lhs, nsymbols),
                             nsymbols + 1)

\* symbol_map after the first two loops of build_grammar
make_symbol_map(lang) ==
    map_left_hand_sides(lang.productions, 0,
                        map_tokens(lang.tokens, <<>>, 0), Len(lang.tokens))

\* has_unknown_rhs taking the left-hand sides for unknown as well
has_unknown_rhs_tokens_only(productions, symbol_map) ==
    \E i \in 1 .. Len(productions) :
        \E k \in 1 .. Len(productions[i].rhs) :
            \/ productions[i].rhs[k] \notin DOMAIN symbol_map
            \/ \E j \in 1 .. Len(productions) : productions[j].lhs = productions[i].rhs[k]

\* some right-hand side entry is not in symbol_map: std::invalid_argument
has_unknown_rhs(productions, symbol_map) ==
    \E i \in 1 .. Len(productions) :
        \E k \in 1 .. Len(productions[i].rhs) : productions[i].rhs[k] \notin DOMAIN symbol_map

\* the loop over language.productions that makes the grammar's productions
resolve_productions(productions, symbol_map) ==
    [i \in 1 .. Len(productions) |->
        [lhs |-> symbol_map[productions[i].lhs],
         rhs |-> [k \in 1 .. Len(productions[i].rhs) |-> symbol_map[productions[i].rhs[k]]]]]

\* some ignored token is not in symbol_map: std::runtime_error
has_unknown_ignored(ignored_tokens, symbol_map) ==
    \E i \in 1 .. Len(ignored_tokens) : ignored_tokens[i] \notin DOMAIN symbol_map

\* the loop over language.ignored_tokens
resolve_ignored(ignored_tokens, symbol_map) ==
    [i \in 1 .. Len(ignored_tokens) |-> symbol_map[ignored_tokens[i]]]

\* the grammar, or what ends the call: abort(), std::invalid_argument for an
\* unknown right-hand side entry, std::runtime_error for an unknown ignored
\* token
build_grammar(lang) ==
    LET m == make_symbol_map(lang)
        symbol_map == m.symbol_map
        nterminals == Len(lang.tokens)
        nsymbols == m.nsymbols
    IN IF m.aborted THEN [thrown |-> "abort"]
       ELSE IF has_unknown_rhs(lang.productions, symbol_map)
       THEN [thrown |-> "invalid_argument"]
       ELSE LET out == [nsymbols |-> nsymbols, nterminals |-> nterminals,
                        productions |-> resolve_productions(lang.productions, symbol_map),
                        ignored_terminals |-> <<>>]
                with_accept == add_accept_production(add_end_terminal(out))
            IN IF has_unknown_ignored(lang.ignored_tokens, symbol_map)
               THEN [thrown |-> "runtime_error"]
               ELSE [with_accept EXCEPT
                        !.ignored_terminals =
                            resolve_ignored(lang.ignored_tokens, symbol_map)]

(***************************************************************************)
(* The LR(0) automaton.                                                    *)
(***************************************************************************)
RECURSIVE make_configs_from(_, _)
make_configs_from(g, i) ==
    IF i = Len(g.productions) THEN <<>>
    ELSE [j \in 1 .. (Len(At(g.productions, i).rhs) + 1) |-> [production |-> i, dot |-> j - 1]]
         \o make_configs_from(g, i + 1)

make_configs(g) == make_configs_from(g, 0)

\* the production of configuration config_i and its dot
prod_of(cs, g, config_i) == At(g.productions, At(cs, config_i).production)
dot_of(cs, config_i) == At(cs, config_i).dot
is_reduction(cs, g, config_i) == dot_of(cs, config_i) = Len(prod_of(cs, g, config_i).rhs)
symbol_after_dot(cs, g, config_i) == At(prod_of(cs, g, config_i).rhs, dot_of(cs, config_i))

get_left_hand_sides_to_start_configs(cs, g) ==
    [lhs \in 1 .. g.nsymbols |->
        SetToSeq({c_i \in 0 .. (Len(cs) - 1) :
                     dot_of(cs, c_i) = 0 /\ prod_of(cs, g, c_i).lhs = lhs - 1})]

RECURSIVE close_loop(_, _, _, _, _)
close_loop(config_q, config_set, cs, g, lhs2sc) ==
    IF config_q = <<>> THEN config_set
    ELSE LET config_i == Head(config_q)
         IN IF is_reduction(cs, g, config_i)
                \/ is_terminal(g, symbol_after_dot(cs, g, config_i))
            THEN close_loop(Tail(config_q), config_set, cs, g, lhs2sc)
            ELSE LET added == SelectSeq(At(lhs2sc, symbol_after_dot(cs, g, config_i)),
                                        LAMBDA sc : sc \notin config_set)
                 IN close_loop(Tail(config_q) \o added, config_set \cup Range(added),
                               cs, g, lhs2sc)

\* close that adds no configuration
close_nothing(configs, cs, g, lhs2sc) == SetToSeq(Range(configs))

\* close: the closed configuration list, in ascending order
close(configs, cs, g, lhs2sc) ==
    SetToSeq(close_loop(configs, Range(configs), cs, g, lhs2sc))

\* the lookup in state_ptrs2idxs: states are compared by their configs
find_state(states, configs) ==
    LET found == {i \in 0 .. (Len(states) - 1) : At(states, i).configs = configs}
    IN IF found = {} THEN -1 ELSE CHOOSE i \in found : TRUE

shift_action(next_state_i, symbol) ==
    [kind |-> "shift", next_state |-> next_state_i, production |-> -1, context |-> {symbol}]

reduce_action(prod_i, contexts) ==
    [kind |-> "reduce", next_state |-> -1, production |-> prod_i, context |-> contexts]

RECURSIVE add_transitions(_, _, _, _, _, _)
\* the loop over transition_symbols for state_i
add_transitions(states, state_i, transition_symbols, cs, g, lhs2sc) ==
    IF transition_symbols = <<>> THEN states
    ELSE LET transition_symbol == Head(transition_symbols)
             moved == SelectSeq(At(states, state_i).configs,
                                LAMBDA config_i :
                                    /\ ~is_reduction(cs, g, config_i)
                                    /\ symbol_after_dot(cs, g, config_i) = transition_symbol)
             next_configs == close([k \in 1 .. Len(moved) |-> moved[k] + 1], cs, g, lhs2sc)
             it == find_state(states, next_configs)
             next_state_i == IF it = -1 THEN Len(states) ELSE it
             pushed == IF it = -1
                       THEN Append(states, [configs |-> next_configs, actions |-> <<>>])
                       ELSE states
             linked == [pushed EXCEPT ![state_i + 1].actions =
                            Append(@, shift_action(next_state_i, transition_symbol))]
         IN add_transitions(linked, state_i, Tail(transition_symbols), cs, g, lhs2sc)

RECURSIVE build_lr0_loop(_, _, _, _, _)
\* the loop over state_q, which holds the states in the order they were made
build_lr0_loop(states, state_i, cs, g, lhs2sc) ==
    IF state_i = Len(states) THEN states
    ELSE LET transition_symbols ==
                 {symbol_after_dot(cs, g, config_i) :
                     config_i \in {c \in Range(At(states, state_i).configs) :
                                      ~is_reduction(cs, g, c)}}
         IN build_lr0_loop(add_transitions(states, state_i, SetToSeq(transition_symbols),
                                           cs, g, lhs2sc),
                           state_i + 1, cs, g, lhs2sc)

add_reduction_actions(states, cs, g) ==
    [i \in 1 .. Len(states) |->
        LET reductions == SelectSeq(states[i].configs,
                                    LAMBDA config_i : is_reduction(cs, g, config_i))
        IN [states[i] EXCEPT !.actions =
               @ \o [k \in 1 .. Len(reductions) |->
                        reduce_action(At(cs, reductions[k]).production, {})]]]

set_lr0_contexts(states, g) ==
    [i \in 1 .. Len(states) |->
        [states[i] EXCEPT !.actions =
            [k \in 1 .. Len(@) |->
                IF @[k].kind # "reduce" THEN @[k]
                ELSE IF @[k].production = get_accept_production(g)
                THEN [@[k] EXCEPT !.context = {get_end_terminal(g)}]
                ELSE [@[k] EXCEPT !.context = 0 .. (g.nterminals - 1)]]]]

build_lr0_parser(cs, g, lhs2sc) ==
    LET start_accept_config == Head(At(lhs2sc, get_accept_nonterminal(g)))
        start_state == [configs |-> close(<<start_accept_config>>, cs, g, lhs2sc),
                        actions |-> <<>>]
        states == build_lr0_loop(<<start_state>>, 0, cs, g, lhs2sc)
    IN set_lr0_contexts(add_reduction_actions(states, cs, g), g)

form_state_configs(states) ==
    Flatten([i \in 1 .. Len(states) |->
                [j \in 1 .. Len(states[i].configs) |->
                    [state |-> i - 1, config_in_state |-> j - 1]]])

form_states_to_state_configs(scs, states) ==
    [i \in 1 .. Len(states) |->
        SetToSeq({sc_i \in 0 .. (Len(scs) - 1) : At(scs, sc_i).state = i - 1})]

\* the configuration index of a state-config
config_of(p, sc_addr) ==
    At(At(p.states, At(p.state_configs, sc_addr).state).configs,
       At(p.state_configs, sc_addr).config_in_state)

(***************************************************************************)
(* FIRST sets.                                                             *)
(***************************************************************************)
FIRST_NULL == -425

get_productions_by_lhs(g) ==
    [lhs \in 1 .. g.nsymbols |->
        SetToSeq({prod_i \in 0 .. (Len(g.productions) - 1) :
                     At(g.productions, prod_i).lhs = lhs - 1})]

get_symbol_graph(g, lhs2prods) ==
    [lhs \in 1 .. g.nsymbols |->
        SetToSeq(UNION {Range(At(g.productions, prod_i).rhs) :
                           prod_i \in Range(lhs2prods[lhs])})]

\* make_transpose of parsegen_parser_graph: the edges reversed
make_transpose(graph) ==
    [b \in 1 .. Len(graph) |->
        SetToSeq({a \in 0 .. (Len(graph) - 1) : (b - 1) \in Range(At(graph, a))})]

\* a variant that stops at the first symbol whatever its FIRST set holds
get_first_set_of_string_first_symbol(string, first_sets) ==
    IF string = <<>> THEN {FIRST_NULL}
    ELSE At(first_sets, Head(string)) \ {FIRST_NULL}

RECURSIVE get_first_set_of_string(_, _)
get_first_set_of_string(string, first_sets) ==
    IF string = <<>> THEN {FIRST_NULL}
    ELSE LET firsts == At(first_sets, Head(string))
         IN (firsts \ {FIRST_NULL})
            \cup (IF FIRST_NULL \in firsts
                  THEN get_first_set_of_string(Tail(string), first_sets)
                  ELSE {})

\* the events first_events pushes for one depender of the dependee
depender_events(g, lhs2prods, first_sets, depender) ==
    LET prods == At(lhs2prods, depender)
    IN Flatten([k \in 1 .. Len(prods) |->
                   LET rhs_first_set ==
                           get_first_set_of_string(At(g.productions, prods[k]).rhs, first_sets)
                       fresh == SetToSeq(rhs_first_set \ At(first_sets, depender))
                   IN [e \in 1 .. Len(fresh) |->
                          [added_symbol |-> fresh[e], dependee |-> depender]]])

RECURSIVE first_sets_loop(_, _, _, _, _)
\* the loop over event_q
first_sets_loop(event_q, first_sets, g, lhs2prods, dependees2dependers) ==
    IF event_q = <<>> THEN first_sets
    ELSE LET event == Head(event_q)
         IN IF event.added_symbol \in At(first_sets, event.dependee)
            THEN first_sets_loop(Tail(event_q), first_sets, g, lhs2prods, dependees2dependers)
            ELSE LET inserted == [first_sets EXCEPT ![event.dependee + 1] =
                                     @ \cup {event.added_symbol}]
                     dependers == At(dependees2dependers, event.dependee)
                     pushed == Flatten([k \in 1 .. Len(dependers) |->
                                           depender_events(g, lhs2prods, inserted,
                                                           dependers[k])])
                 IN first_sets_loop(Tail(event_q) \o pushed, inserted, g, lhs2prods,
                                    dependees2dependers)

compute_first_sets(g) ==
    LET lhs2prods == get_productions_by_lhs(g)
        seeds == Flatten([s \in 1 .. g.nsymbols |->
                     IF is_terminal(g, s - 1)
                     THEN <<[added_symbol |-> s - 1, dependee |-> s - 1]>>
                     ELSE IF \E prod_i \in Range(lhs2prods[s]) :
                                 At(g.productions, prod_i).rhs = <<>>
                     THEN <<[added_symbol |-> FIRST_NULL, dependee |-> s - 1]>>
                     ELSE <<>>])
        dependees2dependers == make_transpose(get_symbol_graph(g, lhs2prods))
    IN first_sets_loop(seeds, [s \in 1 .. g.nsymbols |-> {}], g, lhs2prods,
                       dependees2dependers)

(***************************************************************************)
(* Adequacy.                                                               *)
(***************************************************************************)
\* an action that takes part in the adequacy test: not a shift on a nonterminal
is_terminal_action(g, action) ==
    ~(action.kind = "shift" /\ \E symbol \in action.context : ~is_terminal(g, symbol))

\* a variant that compares a shift with a reduce only
determine_adequate_states_shift_reduce(states, g) ==
    [s \in 1 .. Len(states) |->
        ~\E a_i, a_j \in 1 .. Len(states[s].actions) :
            /\ a_i < a_j
            /\ is_terminal_action(g, states[s].actions[a_i])
            /\ is_terminal_action(g, states[s].actions[a_j])
            /\ states[s].actions[a_i].kind # states[s].actions[a_j].kind
            /\ states[s].actions[a_i].context \cap states[s].actions[a_j].context # {}]

determine_adequate_states(states, g) ==
    [s \in 1 .. Len(states) |->
        ~\E a_i, a_j \in 1 .. Len(states[s].actions) :
            /\ a_i < a_j
            /\ is_terminal_action(g, states[s].actions[a_i])
            /\ is_terminal_action(g, states[s].actions[a_j])
            /\ states[s].actions[a_i].context \cap states[s].actions[a_j].context # {}]

(***************************************************************************)
(* The originator graph.                                                   *)
(***************************************************************************)
StateConfigs(p) == 0 .. (Len(p.state_configs) - 1)

\* the edges of make_immediate_predecessor_graph out of sc_j
immediate_predecessors(p, g, sc_j) ==
    {sc_i \in StateConfigs(p) :
        /\ At(p.state_configs, sc_i).state = At(p.state_configs, sc_j).state
        /\ ~is_reduction(p.configs, g, config_of(p, sc_i))
        /\ ~is_terminal(g, symbol_after_dot(p.configs, g, config_of(p, sc_i)))
        /\ prod_of(p.configs, g, config_of(p, sc_j)).lhs
               = symbol_after_dot(p.configs, g, config_of(p, sc_i))}

\* the edges of find_transition_predecessors out of sc_j
transition_predecessors(p, g, sc_j) ==
    {sc_i \in StateConfigs(p) :
        /\ ~is_reduction(p.configs, g, config_of(p, sc_i))
        /\ config_of(p, sc_i) + 1 = config_of(p, sc_j)
        /\ \E action \in Range(At(p.states, At(p.state_configs, sc_i).state).actions) :
              /\ action.kind = "shift"
              /\ action.next_state = At(p.state_configs, sc_j).state
              /\ action.context = {symbol_after_dot(p.configs, g, config_of(p, sc_i))}}

RECURSIVE transition_ancestors(_, _, _, _)
\* the breadth-first search of make_originator_graph through the transition
\* predecessors: tps when tpq runs empty
transition_ancestors(p, g, tpq, tps) ==
    IF tpq = {} THEN tps
    ELSE LET found == UNION {transition_predecessors(p, g, tpp) : tpp \in tpq} \ tps
         IN transition_ancestors(p, g, found, tps \cup found)

make_originator_graph(p, g) ==
    [sc \in 1 .. Len(p.state_configs) |->
        SetToSeq(UNION {immediate_predecessors(p, g, tpp) :
                           tpp \in transition_ancestors(p, g, {sc - 1}, {sc - 1})})]

(***************************************************************************)
(* Lane tracing: compute_context_set.  L holds the locals of one pass of   *)
(* its top-level loop: lane, stack, in_lane, contexts, complete,           *)
(* tests_failed, num_originators_failed, first_originator_failed, and how  *)
(* the pass ended (failure, keep_lane_popping, returned).  A failed assert *)
(* ends the build like abort() does.                                       *)
(***************************************************************************)
MARKER == -433
ZERO == -100

get_follow_string(sc_addr, p, g) ==
    LET rhs == prod_of(p.configs, g, config_of(p, sc_addr)).rhs
    IN SubSeq(rhs, dot_of(p.configs, config_of(p, sc_addr)) + 2, Len(rhs))

has_non_null_terminal_descendant(first_set) ==
    first_set # {} /\ first_set # {FIRST_NULL}

get_contexts(first_set) == first_set \ {FIRST_NULL}

\* move_markers that zeroes the markers and pushes none
move_markers_zero_only(lane, zeta_prime_addr, zeta_pointer, tests_failed) ==
    LET found == {i \in 0 .. (Len(lane) - 1) : At(lane, i) = zeta_prime_addr}
        loc_of_zeta_prime == CHOOSE i \in found : \A j \in found : i <= j
    IN [k \in 1 .. Len(lane) |->
           IF (k - 1) \in (loc_of_zeta_prime + 1) .. (zeta_pointer - 1) /\ lane[k] = MARKER
           THEN ZERO ELSE lane[k]]

move_markers(lane, zeta_prime_addr, zeta_pointer, tests_failed) ==
    LET found == {i \in 0 .. (Len(lane) - 1) : At(lane, i) = zeta_prime_addr}
        loc_of_zeta_prime == CHOOSE i \in found : \A j \in found : i <= j
        marked == {i \in (loc_of_zeta_prime + 1) .. (zeta_pointer - 1) : At(lane, i) = MARKER}
        zeroed == [k \in 1 .. Len(lane) |-> IF (k - 1) \in marked THEN ZERO ELSE lane[k]]
        markers == [k \in 1 .. Cardinality(marked) |-> MARKER]
    IN IF tests_failed
       THEN pop(zeroed, 1) \o markers \o <<top(zeroed)>>
       ELSE zeroed \o markers

RECURSIVE context_adding_routine(_, _, _, _)
\* r runs from zeta_pointer down to 0
context_adding_routine(lane, r, contexts_generated, contexts) ==
    IF r < 0 \/ contexts_generated = {} THEN contexts
    ELSE IF At(lane, r) < 0
    THEN context_adding_routine(lane, r - 1, contexts_generated, contexts)
    ELSE LET tau_r_addr == At(lane, r)
             subtracted == contexts_generated \ At(contexts, tau_r_addr)
         IN context_adding_routine(lane, r - 1, subtracted,
                [contexts EXCEPT ![tau_r_addr + 1] = @ \cup subtracted])

deal_with_tests_failed(L, zeta_prime_addr, zeta_addr) ==
    IF L.num_originators_failed = 0
    THEN [L EXCEPT !.first_originator_failed = zeta_prime_addr,
                   !.lane = Append(@, zeta_prime_addr),
                   !.in_lane = @ \cup {zeta_prime_addr},
                   !.tests_failed = TRUE,
                   !.num_originators_failed = 1]
    ELSE IF L.num_originators_failed = 1
    THEN IF ~(/\ Len(L.lane) >= 2
              /\ top(L.lane) = L.first_originator_failed
              /\ below(L.lane) = zeta_addr)
         THEN [L EXCEPT !.failure = "second_failure"]
         ELSE [L EXCEPT !.lane = pop(@, 1) \o <<MARKER, L.first_originator_failed>>,
                        !.stack = @ \o <<MARKER, zeta_prime_addr>>,
                        !.num_originators_failed = 2]
    ELSE [L EXCEPT !.stack = Append(@, zeta_prime_addr),
                   !.num_originators_failed = @ + 1]

\* the body of DO_LOOP for the originator zeta_prime_addr of zeta_addr
do_originator(L, zeta_prime_addr, zeta_addr, zeta_pointer, p, g, first_sets) ==
    LET gamma == get_follow_string(zeta_prime_addr, p, g)
        gamma_first == get_first_set_of_string(gamma, first_sets)
        added(contexts_generated) ==
            [L EXCEPT !.contexts =
                context_adding_routine(L.lane, zeta_pointer, contexts_generated, @)]
    IN IF has_non_null_terminal_descendant(gamma_first)
       THEN IF FIRST_NULL \in gamma_first
            THEN IF At(L.complete, zeta_prime_addr)
                 THEN added(get_contexts(gamma_first) \cup At(L.contexts, zeta_prime_addr))
                 ELSE IF zeta_prime_addr \notin L.in_lane
                 THEN deal_with_tests_failed(added(get_contexts(gamma_first)),
                                             zeta_prime_addr, zeta_addr)
                 ELSE [L EXCEPT !.failure = "ambiguous"]
            ELSE added(get_contexts(gamma_first))
       ELSE IF At(L.complete, zeta_prime_addr)
       THEN added(At(L.contexts, zeta_prime_addr))
       ELSE IF zeta_prime_addr \in L.in_lane
       THEN IF zeta_prime_addr \notin Range(L.lane)
            THEN [L EXCEPT !.failure = "assertion"]
            ELSE LET moved == move_markers(L.lane, zeta_prime_addr, zeta_pointer,
                                           L.tests_failed)
                 IN [L EXCEPT !.lane = moved,
                              !.contexts =
                                  context_adding_routine(moved, zeta_pointer,
                                      At(L.contexts, zeta_prime_addr), @)]
       ELSE deal_with_tests_failed(L, zeta_prime_addr, zeta_addr)

RECURSIVE do_loop(_, _, _, _, _, _, _)
do_loop(L, originators, zeta_addr, zeta_pointer, p, g, first_sets) ==
    IF originators = <<>> \/ L.failure # "" THEN L
    ELSE do_loop(do_originator(L, Head(originators), zeta_addr, zeta_pointer,
                               p, g, first_sets),
                 Tail(originators), zeta_addr, zeta_pointer, p, g, first_sets)

\* heuristic propagation to every start state-config of the state
propagation_to_every_left_hand_side(L, tau_addr, p, g) ==
    IF dot_of(p.configs, config_of(p, tau_addr)) # 0 THEN L
    ELSE LET siblings ==
                 {tau_prime_addr \in StateConfigs(p) :
                     /\ At(p.state_configs, tau_prime_addr).state
                            = At(p.state_configs, tau_addr).state
                     /\ tau_prime_addr # tau_addr
                     /\ dot_of(p.configs, config_of(p, tau_prime_addr)) = 0}
         IN [L EXCEPT !.contexts = [k \in 1 .. Len(@) |->
                                       IF (k - 1) \in siblings
                                       THEN At(L.contexts, tau_addr) ELSE @[k]],
                      !.complete = [k \in 1 .. Len(@) |-> (k - 1) \in siblings \/ @[k]]]

\* heuristic propagation that marks the siblings and copies no context
heuristic_propagation_of_completeness(L, tau_addr, p, g) ==
    IF dot_of(p.configs, config_of(p, tau_addr)) # 0 THEN L
    ELSE LET siblings ==
                 {tau_prime_addr \in StateConfigs(p) :
                     /\ At(p.state_configs, tau_prime_addr).state
                            = At(p.state_configs, tau_addr).state
                     /\ tau_prime_addr # tau_addr
                     /\ dot_of(p.configs, config_of(p, tau_prime_addr)) = 0
                     /\ prod_of(p.configs, g, config_of(p, tau_prime_addr)).lhs
                            = prod_of(p.configs, g, config_of(p, tau_addr)).lhs}
         IN [L EXCEPT !.complete = [k \in 1 .. Len(@) |-> (k - 1) \in siblings \/ @[k]]]

heuristic_propagation_of_context_sets(L, tau_addr, p, g) ==
    IF dot_of(p.configs, config_of(p, tau_addr)) # 0 THEN L
    ELSE LET siblings ==
                 {tau_prime_addr \in StateConfigs(p) :
                     /\ At(p.state_configs, tau_prime_addr).state
                            = At(p.state_configs, tau_addr).state
                     /\ tau_prime_addr # tau_addr
                     /\ dot_of(p.configs, config_of(p, tau_prime_addr)) = 0
                     /\ prod_of(p.configs, g, config_of(p, tau_prime_addr)).lhs
                            = prod_of(p.configs, g, config_of(p, tau_addr)).lhs}
         IN [L EXCEPT !.contexts = [k \in 1 .. Len(@) |->
                                       IF (k - 1) \in siblings
                                       THEN At(L.contexts, tau_addr) ELSE @[k]],
                      !.complete = [k \in 1 .. Len(@) |-> (k - 1) \in siblings \/ @[k]]]

RECURSIVE stack_popping(_)
stack_popping(L) ==
    IF L.stack = <<>> THEN [L EXCEPT !.failure = "assertion"]
    ELSE IF top(L.stack) = MARKER
    THEN [L EXCEPT !.stack = pop(@, 1), !.lane = pop(@, 1)]
    ELSE IF At(L.complete, top(L.stack))
    THEN stack_popping([L EXCEPT !.stack = pop(@, 1)])
    ELSE [L EXCEPT !.stack = pop(@, 1),
                   !.lane = Append(@, top(L.stack)),
                   !.in_lane = @ \cup {top(L.stack)},
                   !.keep_lane_popping = FALSE]

\* lane popping that pops nothing
lane_popping_never(L, zeta_j_addr, p, g) == L

RECURSIVE lane_popping(_, _, _, _)
lane_popping(L, zeta_j_addr, p, g) ==
    IF L.failure # "" \/ ~L.keep_lane_popping THEN L
    ELSE IF L.lane = <<>> THEN [L EXCEPT !.failure = "assertion"]
    ELSE IF top(L.lane) = MARKER
    THEN lane_popping(stack_popping(L), zeta_j_addr, p, g)
    ELSE IF top(L.lane) = ZERO
    THEN lane_popping([L EXCEPT !.lane = pop(@, 1)], zeta_j_addr, p, g)
    ELSE LET tau_addr == top(L.lane)
             done == heuristic_propagation_of_context_sets(
                         [L EXCEPT !.in_lane = @ \ {tau_addr},
                                   !.complete[tau_addr + 1] = TRUE],
                         tau_addr, p, g)
         IN IF L.lane = <<zeta_j_addr>>
            THEN [done EXCEPT !.returned = TRUE, !.keep_lane_popping = FALSE]
            ELSE lane_popping([done EXCEPT !.lane = pop(@, 1)], zeta_j_addr, p, g)

\* one pass of the top-level loop of compute_context_set
lane_pass(t, p, g) ==
    LET zeta_addr == top(t.lane)
        zeta_pointer == Len(t.lane) - 1
        L == [lane |-> t.lane, stack |-> t.stack, in_lane |-> t.in_lane,
              contexts |-> t.contexts, complete |-> t.complete,
              tests_failed |-> FALSE, num_originators_failed |-> 0,
              first_originator_failed |-> -1,
              failure |-> "", keep_lane_popping |-> TRUE, returned |-> FALSE]
        looped == do_loop(L, At(t.originator_graph, zeta_addr), zeta_addr, zeta_pointer,
                          p, g, t.first_sets)
    IN IF looped.failure # "" \/ looped.tests_failed THEN looped
       ELSE lane_popping(looped, t.zeta_j_addr, p, g)

(***************************************************************************)
(* The languages that are built: every reduced language of up to           *)
(* MaxProductions productions over NTokens tokens and NNonterminals        *)
(* nonterminals, its productions in a fixed order, the tokens it does not  *)
(* use being ignored; and the grammars named below.                        *)
(***************************************************************************)
SeqsUpTo(S, n) == UNION {[1 .. k -> S] : k \in 0 .. n}

LanguageSymbols == 0 .. (NTokens + NNonterminals - 1)

Productions ==
    [lhs : NTokens .. (NTokens + NNonterminals - 1), rhs : SeqsUpTo(LanguageSymbols, MaxRhs)]

RECURSIVE Code(_)
\* a rank of the right-hand sides: shorter first, then by symbols
Code(rhs) == IF rhs = <<>> THEN 0
             ELSE (NTokens + NNonterminals + 1) * Code(pop(rhs, 1)) + top(rhs) + 1

Before(p, q) == p.lhs < q.lhs \/ (p.lhs = q.lhs /\ Code(p.rhs) < Code(q.rhs))

RECURSIVE Closure(_, _)
\* the least set that holds S and is closed under F
Closure(F(_), S) == LET T == S \cup F(S) IN IF T = S THEN S ELSE Closure(F, T)

Lhs(ps) == {ps[i].lhs : i \in 1 .. Len(ps)}

\* every nonterminal derives a string of tokens and is reached from the start
Reduced(ntokens, ps) ==
    LET Productive(S) == {ps[i].lhs : i \in {j \in 1 .. Len(ps) :
                              \A x \in Range(ps[j].rhs) : x < ntokens \/ x \in S}}
        Reached(S) == UNION {Range(ps[i].rhs) \ (0 .. (ntokens - 1)) :
                                i \in {j \in 1 .. Len(ps) : ps[j].lhs \in S}}
    IN /\ Closure(Productive, {}) = Lhs(ps)
       /\ Closure(Reached, {ps[1].lhs}) = Lhs(ps)

Unused(ntokens, ps) == (0 .. (ntokens - 1)) \ UNION {Range(ps[i].rhs) : i \in 1 .. Len(ps)}

\* the names of the symbols of a generated language: tokens, then nonterminals
TokenNames == <<"a", "b", "c", "d">>
NonterminalNames == <<"S", "A", "B", "C">>
SymbolName(x) == IF x < NTokens THEN TokenNames[x + 1] ELSE NonterminalNames[x - NTokens + 1]
Names(symbols) == [k \in 1 .. Len(symbols) |-> SymbolName(symbols[k])]

GeneratedLanguages ==
    {[tokens |-> [i \in 1 .. NTokens |-> TokenNames[i]],
      productions |-> [i \in 1 .. Len(ps) |->
                          [lhs |-> SymbolName(ps[i].lhs), rhs |-> Names(ps[i].rhs)]],
      ignored_tokens |-> Names(SetToSeq(Unused(NTokens, ps)))] :
        ps \in {qs \in UNION {[1 .. k -> Productions] : k \in 1 .. MaxProductions} :
                   /\ \A i \in 1 .. (Len(qs) - 1) : Before(qs[i], qs[i + 1])
                   /\ Lhs(qs) = NTokens .. (NTokens + Cardinality(Lhs(qs)) - 1)
                   /\ Reduced(NTokens, qs)}}

\* S ::= INT | S "+" INT with the tokens INT, WS, "+" and WS ignored
SumLanguage ==
    [tokens |-> <<"INT", "WS", "+">>,
     productions |-> <<[lhs |-> "S", rhs |-> <<"INT">>],
                       [lhs |-> "S", rhs |-> <<"S", "+", "INT">>]>>,
     ignored_tokens |-> <<"WS">>]

\* E ::= E "+" T | T, T ::= T "*" F | F, F ::= "(" E ")" | id
\* with the tokens "+", "*", "(", ")", id
ExpressionLanguage ==
    [tokens |-> <<"+", "*", "(", ")", "id">>,
     productions |-> <<[lhs |-> "E", rhs |-> <<"E", "+", "T">>], [lhs |-> "E", rhs |-> <<"T">>],
                       [lhs |-> "T", rhs |-> <<"T", "*", "F">>], [lhs |-> "T", rhs |-> <<"F">>],
                       [lhs |-> "F", rhs |-> <<"(", "E", ")">>], [lhs |-> "F", rhs |-> <<"id">>]>>,
     ignored_tokens |-> <<>>]

\* A ::= B c, B ::= b | (empty) with the tokens b, c
NullableLanguage ==
    [tokens |-> <<"b", "c">>,
     productions |-> <<[lhs |-> "A", rhs |-> <<"B", "c">>],
                       [lhs |-> "B", rhs |-> <<"b">>], [lhs |-> "B", rhs |-> <<>>]>>,
     ignored_tokens |-> <<>>]

\* S ::= a | a A | A b, A ::= a with the tokens a, b
PrefixLanguage ==
    [tokens |-> <<"a", "b">>,
     productions |-> <<[lhs |-> "S", rhs |-> <<"a">>], [lhs |-> "S", rhs |-> <<"a", "A">>],
                       [lhs |-> "S", rhs |-> <<"A", "b">>], [lhs |-> "A", rhs |-> <<"a">>]>>,
     ignored_tokens |-> <<>>]

\* S ::= D | E | F, B ::= C, C ::= (empty) | B | c, D ::= B, E ::= C, F ::= C
\* with the token c
CyclicLanguage ==
    [tokens |-> <<"c">>,
     productions |-> <<[lhs |-> "S", rhs |-> <<"D">>], [lhs |-> "S", rhs |-> <<"E">>],
                       [lhs |-> "S", rhs |-> <<"F">>], [lhs |-> "B", rhs |-> <<"C">>],
                       [lhs |-> "C", rhs |-> <<>>], [lhs |-> "C", rhs |-> <<"B">>],
                       [lhs |-> "C", rhs |-> <<"c">>], [lhs |-> "D", rhs |-> <<"B">>],
                       [lhs |-> "E", rhs |-> <<"C">>], [lhs |-> "F", rhs |-> <<"C">>]>>,
     ignored_tokens |-> <<>>]

Languages ==
    GeneratedLanguages \cup {SumLanguage, ExpressionLanguage, NullableLanguage, PrefixLanguage,
                             CyclicLanguage}

(***************************************************************************)
(* SpecParser: build_lalr1_parser followed by accept_parser.               *)
(***************************************************************************)
InitParser ==
    /\ pc = "grammar"
    /\ language \in Languages
    /\ grammar = build_grammar(language)
    /\ indent_info = <<>>
    /\ regex = <<>>
    /\ NoMemo
    /\ pip = <<>>
    /\ tracing = <<>>
    /\ tables = <<>>
    /\ fa = NoFA
    /\ dfa = NoFA
    /\ sdfa = NoFA
    /\ vstack = <<>>
    /\ result_token = 0
    /\ lexer = NoFA
    /\ token_dfas = <<>>

\* the reduction state-configs of the states that are not adequate, in the
\* order build_lalr1_parser visits them
inadequate_reductions(p, g, adequate) ==
    SelectSeq([sc \in 1 .. Len(p.state_configs) |-> sc - 1],
              LAMBDA sc_addr : /\ ~At(adequate, At(p.state_configs, sc_addr).state)
                               /\ is_reduction(p.configs, g, config_of(p, sc_addr)))

\* the parser_in_progress build_lalr1_parser starts from
make_parser_in_progress(g) ==
    LET cs == make_configs(g)
        lhs2cs == get_left_hand_sides_to_start_configs(cs, g)
        states == build_lr0_parser(cs, g, lhs2cs)
        scs == form_state_configs(states)
    IN [configs |-> cs, states |-> states, state_configs |-> scs,
        states2state_configs |-> form_states_to_state_configs(scs, states)]

\* the locals of build_lalr1_parser before the first compute_context_set
begin_lane_tracing(out, g, adequate) ==
    LET is_accept == [sc \in 1 .. Len(out.state_configs) |->
                         At(out.configs, config_of(out, sc - 1)).production
                             = get_accept_production(g)]
    IN [adequate |-> adequate,
        complete |-> is_accept,
        contexts |-> [sc \in 1 .. Len(out.state_configs) |->
                         IF is_accept[sc] THEN {get_end_terminal(g)} ELSE {}],
        originator_graph |-> make_originator_graph(out, g),
        first_sets |-> compute_first_sets(g),
        pending |-> inadequate_reductions(out, g, adequate),
        zeta_j_addr |-> -1,
        lane |-> <<>>, stack |-> <<>>, in_lane |-> {}]

\* build_lalr1_parser up to the first call of compute_context_set
BuildLR0Parser ==
    /\ pc = "grammar"
    /\ \E out \in {make_parser_in_progress(grammar)} :
          \E adequate \in {determine_adequate_states(out.states, grammar)} :
             /\ pip' = out
             /\ IF \A s \in 1 .. Len(adequate) : adequate[s]
                THEN /\ pc' = "returned"
                     /\ tracing' = [adequate |-> adequate]
                ELSE /\ pc' = "contexts"
                     /\ tracing' = begin_lane_tracing(out, grammar, adequate)
    /\ UNCHANGED <<grammar, tables>>
    /\ UNCHANGED <<automaton_vars, language_vars, memo_vars>>

\* the call compute_context_set(zeta_j_addr, ...) up to its top-level loop
ComputeContextSet ==
    /\ pc = "contexts"
    /\ tracing.pending # <<>>
    /\ LET zeta_j_addr == Head(tracing.pending)
       IN IF At(tracing.complete, zeta_j_addr)
          THEN /\ tracing' = [tracing EXCEPT !.pending = Tail(@)]
               /\ pc' = pc
          ELSE /\ tracing' = [tracing EXCEPT !.zeta_j_addr = zeta_j_addr,
                                             !.lane = <<zeta_j_addr>>,
                                             !.stack = <<>>,
                                             !.in_lane = {zeta_j_addr}]
               /\ pc' = "lane"
    /\ UNCHANGED <<grammar, pip, tables>>
    /\ UNCHANGED <<automaton_vars, language_vars, memo_vars>>

\* one pass of the top-level loop of compute_context_set
TraceLane ==
    /\ pc = "lane"
    /\ \E L \in {lane_pass(tracing, pip, grammar)} :
          /\ tracing' = [tracing EXCEPT !.lane = L.lane, !.stack = L.stack,
                                        !.in_lane = L.in_lane,
                                        !.contexts = L.contexts,
                                        !.complete = L.complete,
                                        !.pending = IF L.returned THEN Tail(@) ELSE @]
          /\ pc' = IF L.failure # "" THEN L.failure
                   ELSE IF L.returned THEN "contexts" ELSE "lane"
    /\ UNCHANGED <<grammar, pip, tables>>
    /\ UNCHANGED <<automaton_vars, language_vars, memo_vars>>

\* the contexts of the reduce actions if every reduction state-config gave
\* its context to its action, completed or not
update_every_context(p, g, t) ==
    [s \in 1 .. Len(p.states) |->
        [p.states[s] EXCEPT !.actions =
            [k \in 1 .. Len(@) |->
                LET done == {sc_i \in Range(p.states2state_configs[s]) :
                                /\ is_reduction(p.configs, g, config_of(p, sc_i))
                                /\ @[k].kind = "reduce"
                                /\ @[k].production = At(p.configs, config_of(p, sc_i)).production}
                IN IF done = {} THEN @[k]
                   ELSE [@[k] EXCEPT !.context =
                            At(t.contexts, CHOOSE sc_i \in done : \A sc_j \in done : sc_j <= sc_i)]]]]

\* the contexts of the reduce actions after lane tracing
update_contexts(p, g, t) ==
    [s \in 1 .. Len(p.states) |->
        [p.states[s] EXCEPT !.actions =
            [k \in 1 .. Len(@) |->
                LET done == {sc_i \in Range(p.states2state_configs[s]) :
                                /\ At(t.complete, sc_i)
                                /\ is_reduction(p.configs, g, config_of(p, sc_i))
                                /\ @[k].kind = "reduce"
                                /\ @[k].production = At(p.configs, config_of(p, sc_i)).production}
                IN IF done = {} THEN @[k]
                   ELSE [@[k] EXCEPT !.context =
                            At(t.contexts, CHOOSE sc_i \in done : \A sc_j \in done : sc_j <= sc_i)]]]]

\* the tail of build_lalr1_parser
UpdateContexts ==
    /\ pc = "contexts"
    /\ tracing.pending = <<>>
    /\ \E states \in {update_contexts(pip, grammar, tracing)} :
          \E adequate \in {determine_adequate_states(states, grammar)} :
             /\ pip' = [pip EXCEPT !.states = states]
             /\ pc' = IF \A s \in 1 .. Len(adequate) : adequate[s]
                      THEN "returned" ELSE "not_lalr1"
    /\ UNCHANGED <<grammar, tracing, tables>>
    /\ UNCHANGED <<automaton_vars, language_vars, memo_vars>>

(***************************************************************************)
(* accept_parser.  A cell of terminal_table keeps every action written to  *)
(* it, in the order of the writes.                                         *)
(***************************************************************************)
skip_action == [kind |-> "skip", next_state |-> -1, production |-> -1]

as_nonterminal(g, symbol) == symbol - g.nterminals

add_terminal_action(t, state, terminal, action) ==
    [t EXCEPT !.terminal_table[state + 1][terminal + 1] = Append(@, action)]

add_nonterminal_action(t, state, nt, next_state) ==
    [t EXCEPT !.nonterminal_table[state + 1][nt + 1] = next_state]

\* the calls accept_parser makes for one action of state s_i, in order
action_writes(g, s_i, action) ==
    LET terminals == SetToSeq(action.context)
    IN (IF ~is_terminal_action(g, action)
        THEN <<[state |-> s_i, nt |-> as_nonterminal(g, CHOOSE symbol \in action.context : TRUE),
                next_state |-> action.next_state]>>
        ELSE [k \in 1 .. Len(terminals) |->
                 [state |-> s_i, terminal |-> terminals[k],
                  action |-> [kind |-> action.kind, next_state |-> action.next_state,
                              production |-> action.production]]])
       \o [k \in 1 .. Len(g.ignored_terminals) |->
              [state |-> s_i, terminal |-> g.ignored_terminals[k], action |-> skip_action]]

RECURSIVE write_actions(_, _)
write_actions(t, writes) ==
    IF writes = <<>> THEN t
    ELSE LET w == Head(writes)
         IN write_actions(IF "nt" \in DOMAIN w
                          THEN add_nonterminal_action(t, w.state, w.nt, w.next_state)
                          ELSE add_terminal_action(t, w.state, w.terminal, w.action),
                          Tail(writes))

accept_parser(p, g) ==
    write_actions(
        [terminal_table |-> [s \in 1 .. Len(p.states) |-> [t \in 1 .. g.nterminals |-> <<>>]],
         nonterminal_table |-> [s \in 1 .. Len(p.states) |->
                                   [nt \in 1 .. (g.nsymbols - g.nterminals) |-> -1]]],
        Flatten([s \in 1 .. Len(p.states) |->
                    Flatten([k \in 1 .. Len(p.states[s].actions) |->
                                action_writes(g, s - 1, p.states[s].actions[k])])]))

AcceptParser ==
    /\ pc = "returned"
    /\ tables' = accept_parser(pip, grammar)
    /\ pc' = "accepted"
    /\ UNCHANGED <<grammar, pip, tracing>>
    /\ UNCHANGED <<automaton_vars, language_vars, memo_vars>>

NextParser ==
    \/ BuildLR0Parser
    \/ ComputeContextSet
    \/ TraceLane
    \/ UpdateContexts
    \/ AcceptParser

SpecParser == InitParser /\ [][NextParser]_vars

(***************************************************************************)
(* Reference definitions, written from the grammar alone.                  *)
(***************************************************************************)
GrammarSymbols(g) == 0 .. (g.nsymbols - 1)
Terminals(g) == 0 .. (g.nterminals - 1)

\* the nonterminals that derive the empty string
Nullable(g) ==
    LET Empty(S) == {prod.lhs : prod \in {q \in Range(g.productions) : Range(q.rhs) \subseteq S}}
    IN Closure(Empty, {})

\* the symbols a string can begin with after any number of derivation steps
RECURSIVE Leading(_, _, _)
Leading(g, nullable, string) ==
    IF string = <<>> THEN {}
    ELSE {Head(string)}
         \cup (IF Head(string) \in nullable THEN Leading(g, nullable, Tail(string)) ELSE {})

Heads(g, nullable, string) ==
    LET Expand(S) == UNION {Leading(g, nullable, prod.rhs) :
                               prod \in {q \in Range(g.productions) : q.lhs \in S}}
    IN Closure(Expand, Leading(g, nullable, string))

\* the terminals t with string =>* t gamma, and FIRST_NULL if string =>* empty
First(g, string) ==
    LET nullable == Nullable(g)
    IN (Heads(g, nullable, string) \cap Terminals(g))
       \cup (IF Range(string) \subseteq nullable THEN {FIRST_NULL} ELSE {})

\* one round of LALR(1) lookahead propagation over the state-configs of the
\* LR(0) automaton: a configuration with the dot at the start takes the FIRST
\* set of what follows the nonterminal in the configurations of its state that
\* call for it, and their lookahead where that can be empty; any other takes
\* the lookahead of the configuration it was shifted from
Propagate(p, g, la) ==
    [sc \in 1 .. Len(p.state_configs) |->
        LET config_i == config_of(p, sc - 1)
            state == At(p.state_configs, sc - 1).state
            callers == {sc_i \in Range(p.states2state_configs[state + 1]) :
                           /\ ~is_reduction(p.configs, g, config_of(p, sc_i))
                           /\ symbol_after_dot(p.configs, g, config_of(p, sc_i))
                                  = prod_of(p.configs, g, config_i).lhs}
        IN la[sc]
           \cup (IF At(p.configs, config_i).production = get_accept_production(g)
                 THEN {get_end_terminal(g)} ELSE {})
           \cup (IF dot_of(p.configs, config_i) = 0
                 THEN UNION {LET follow == First(g, get_follow_string(sc_i, p, g))
                             IN (follow \ {FIRST_NULL})
                                \cup (IF FIRST_NULL \in follow THEN la[sc_i + 1] ELSE {}) :
                                sc_i \in callers}
                 ELSE UNION {la[sc_i + 1] : sc_i \in transition_predecessors(p, g, sc - 1)})]

RECURSIVE LookaheadFrom(_, _, _)
LookaheadFrom(p, g, la) ==
    LET next == Propagate(p, g, la)
    IN IF next = la THEN la ELSE LookaheadFrom(p, g, next)

\* the LALR(1) lookahead set of every state-config
Lookahead(p, g) == LookaheadFrom(p, g, [sc \in 1 .. Len(p.state_configs) |-> {}])

\* the terminals a state shifts on
ShiftTerminals(g, state) ==
    UNION {action.context : action \in {a \in Range(state.actions) :
                                            a.kind = "shift" /\ is_terminal_action(g, a)}}

\* no shift-reduce and no reduce-reduce conflict under the lookahead sets la
IsLALR1(p, g, la) ==
    \A s \in 1 .. Len(p.states) :
        LET reductions == {sc_i \in Range(p.states2state_configs[s]) :
                              is_reduction(p.configs, g, config_of(p, sc_i))}
        IN /\ \A sc_i \in reductions : la[sc_i + 1] \cap ShiftTerminals(g, p.states[s]) = {}
           /\ \A sc_i, sc_j \in reductions : sc_i # sc_j => la[sc_i + 1] \cap la[sc_j + 1] = {}

\* the actions of a state that are defined on terminal t
ActionsOn(state, t) == {k \in 1 .. Len(state.actions) : t \in state.actions[k].context}

EveryStateAdequate(p, g) ==
    \A s \in 1 .. Len(p.states) : \A t \in Terminals(g) :
        Cardinality(ActionsOn(p.states[s], t)) <= 1

\* lane tracing has run and has ended
Traced == pc = "contexts" /\ tracing.pending = <<>>

\* the state-config of state s whose configuration is dot places into
\* production prod_i
StateConfigOf(p, s, prod_i, dot) ==
    CHOOSE sc_i \in Range(p.states2state_configs[s + 1]) :
        At(p.configs, config_of(p, sc_i)) = [production |-> prod_i, dot |-> dot]

(***************************************************************************)
(* C6: whenever build_lalr1_parser returns a parser, every state is        *)
(* adequate: on every terminal at most one action of the state (a shift on *)
(* it, or a reduce with it in its context) is defined; and when the build  *)
(* fails as not LALR(1), some state is inadequate after lane tracing.      *)
(***************************************************************************)
C6_ReturnedParserIsAdequate ==
    /\ pc \in {"returned", "accepted"} => EveryStateAdequate(pip, grammar)
    /\ pc = "not_lalr1" => ~EveryStateAdequate(pip, grammar)

\* a parser returned after lane tracing made an inadequate state adequate
C6_Witness ==
    /\ pc = "returned"
    /\ \E s \in 1 .. Len(tracing.adequate) : ~tracing.adequate[s]
    /\ \E s \in 1 .. Len(pip.states) : \E k \in 1 .. Len(pip.states[s].actions) :
          /\ pip.states[s].actions[k].kind = "reduce"
          /\ pip.states[s].actions[k].context # Terminals(grammar)
          /\ ShiftTerminals(grammar, pip.states[s]) # {}

(***************************************************************************)
(* C7: accept_parser leaves terminal_table[s][t] = skip for every state s  *)
(* and every ignored terminal t, and no cell of the table is written with  *)
(* two different actions.                                                  *)
(***************************************************************************)
C7_SkipCellsWrittenOnce ==
    pc = "accepted" =>
        \A s \in 1 .. Len(tables.terminal_table) : \A t \in Terminals(grammar) :
            LET written == tables.terminal_table[s][t + 1]
            IN /\ \A i, j \in 1 .. Len(written) : written[i] = written[j]
               /\ t \in Range(grammar.ignored_terminals) =>
                      written # <<>> /\ top(written) = skip_action

(***************************************************************************)
(* C8: for every grammar compute_first_sets gives every symbol A the set   *)
(* that holds terminal t iff A derives a string beginning with t, and      *)
(* FIRST_NULL iff A derives the empty string; for A ::= B c, B ::= b |     *)
(* (empty) it gives FIRST(A) = {b, c} and FIRST(B) = {b, FIRST_NULL}.      *)
(***************************************************************************)
C8_FirstSetsAreCorrect ==
    /\ pc = "grammar" =>
          \A symbol \in GrammarSymbols(grammar) :
              At(compute_first_sets(grammar), symbol) = First(grammar, <<symbol>>)
    /\ pc = "contexts" /\ grammar = build_grammar(NullableLanguage) =>
          /\ At(tracing.first_sets, 3) = {0, 1}
          /\ At(tracing.first_sets, 4) = {0, FIRST_NULL}

\* the FIRST sets of A ::= B c, B ::= b | (empty) when lane tracing starts
C8_Witness ==
    /\ pc = "contexts"
    /\ grammar = build_grammar(NullableLanguage)
    /\ At(tracing.first_sets, 3) = {0, 1}
    /\ At(tracing.first_sets, 4) = {0, FIRST_NULL}

(***************************************************************************)
(* C9: for every reduction state-config of a state that is inadequate      *)
(* after LR(0), the context set computed by compute_context_set equals the *)
(* LALR(1) lookahead set of that configuration; in the expression grammar  *)
(* the reduce E ::= T gets {"+", end, ")"}.                                *)
(***************************************************************************)
C9_ContextsAreLookaheads ==
    Traced =>
        /\ \A sc_addr \in Range(inadequate_reductions(pip, grammar, tracing.adequate)) :
              At(tracing.contexts, sc_addr) = At(Lookahead(pip, grammar), sc_addr)
        /\ grammar = build_grammar(ExpressionLanguage) =>
              \A s \in 0 .. (Len(pip.states) - 1) :
                  (/\ ~At(tracing.adequate, s)
                   /\ \E sc_i \in Range(pip.states2state_configs[s + 1]) :
                         At(pip.configs, config_of(pip, sc_i)) = [production |-> 1, dot |-> 1])
                  => At(tracing.contexts, StateConfigOf(pip, s, 1, 1)) = {0, 3, 5}

(***************************************************************************)
(* C10: for every grammar that is LALR(1), that is whose LR(0) automaton   *)
(* with the LALR(1) lookahead sets has no shift-reduce and no              *)
(* reduce-reduce conflict, build_lalr1_parser ends neither in the "grammar *)
(* is ambiguous" failure nor in the "not LALR(1)" failure.                 *)
(***************************************************************************)
C10_LALR1GrammarsBuild ==
    pc \in {"ambiguous", "not_lalr1"} => ~IsLALR1(pip, grammar, Lookahead(pip, grammar))


(***************************************************************************)
(* build_indent_info: the optional INDENT / DEDENT / NEWLINE tokens.       *)
(***************************************************************************)
MaxIndentTokens == 4      \* tokens of a language with indentation tokens
MaxDeclTokens == 2        \* tokens of a language with colliding names
MaxDeclProductions == 2   \* productions of a language with colliding names
MaxDeclRhs == 1           \* right-hand side length in such a language

\* the call ended in an exception or in abort()
Thrown(r) == "thrown" \in DOMAIN r

invalid_argument(what) == [thrown |-> "invalid_argument", what |-> what]

RECURSIVE scan_indent_tokens(_, _, _)
\* the loop over language.tokens of build_indent_info
scan_indent_tokens(tokens, tok_i, out) ==
    IF tok_i = Len(tokens) THEN out
    ELSE LET name == At(tokens, tok_i)
         IN IF name = "INDENT"
            THEN IF out.indent_token # -1
                 THEN invalid_argument("The language has two or more INDENT tokens")
                 ELSE scan_indent_tokens(tokens, tok_i + 1,
                          [out EXCEPT !.indent_token = tok_i, !.is_sensitive = TRUE])
            ELSE IF name = "DEDENT"
            THEN IF out.dedent_token # -1
                 THEN invalid_argument("The language has two or more DEDENT tokens")
                 ELSE scan_indent_tokens(tokens, tok_i + 1, [out EXCEPT !.dedent_token = tok_i])
            ELSE IF name = "NEWLINE"
            THEN IF out.newline_token # -1
                 THEN invalid_argument("The language has two or more NEWLINE tokens")
                 ELSE scan_indent_tokens(tokens, tok_i + 1, [out EXCEPT !.newline_token = tok_i])
            ELSE scan_indent_tokens(tokens, tok_i + 1, out)

\* build_indent_info without the test that NEWLINE comes first
build_indent_info_unordered(lang) ==
    LET out == scan_indent_tokens(lang.tokens, 0,
                   [is_sensitive |-> FALSE, indent_token |-> -1,
                    dedent_token |-> -1, newline_token |-> -1])
    IN IF Thrown(out) THEN out
       ELSE IF out.is_sensitive /\ out.indent_token = -1
       THEN invalid_argument("This indentation-sensitive language has no INDENT token")
       ELSE IF out.is_sensitive /\ out.dedent_token = -1
       THEN invalid_argument("This indentation-sensitive language has no DEDENT token")
       ELSE IF out.is_sensitive /\ out.newline_token = -1
       THEN invalid_argument("This indentation-sensitive language has no NEWLINE token")
       ELSE out

\* the indentation, or the std::invalid_argument thrown
build_indent_info(lang) ==
    LET out == scan_indent_tokens(lang.tokens, 0,
                   [is_sensitive |-> FALSE, indent_token |-> -1,
                    dedent_token |-> -1, newline_token |-> -1])
    IN IF Thrown(out) THEN out
       ELSE IF out.is_sensitive /\ out.indent_token = -1
       THEN invalid_argument("This indentation-sensitive language has no INDENT token")
       ELSE IF out.is_sensitive /\ out.dedent_token = -1
       THEN invalid_argument("This indentation-sensitive language has no DEDENT token")
       ELSE IF out.is_sensitive /\ out.newline_token = -1
       THEN invalid_argument("This indentation-sensitive language has no NEWLINE token")
       ELSE IF out.indent_token < out.newline_token \/ out.dedent_token < out.newline_token
       THEN invalid_argument("NEWLINE needs to come before all other indent tokens")
       ELSE out

(***************************************************************************)
(* SpecLanguage: build_indent_info and build_grammar on a language, called *)
(* on their own or one after the other as build_parser_tables does.        *)
(***************************************************************************)
\* languages whose tokens are drawn from the indentation tokens and "a"
IndentLanguages ==
    {[tokens |-> ts, productions |-> <<[lhs |-> "S", rhs |-> <<>>]>>, ignored_tokens |-> <<>>] :
        ts \in SeqsUpTo({"INDENT", "DEDENT", "NEWLINE", "a"}, MaxIndentTokens)}

\* languages in which token names, left-hand sides, right-hand side entries
\* and ignored names collide, are unknown or are empty
DeclProductions ==
    [lhs : {"", "a", "S", "T"}, rhs : SeqsUpTo({"a", "S", "T", "x"}, MaxDeclRhs)]

DeclLanguages ==
    [tokens : SeqsUpTo({"a", "b"}, MaxDeclTokens),
     productions : UNION {[1 .. k -> DeclProductions] : k \in 1 .. MaxDeclProductions},
     ignored_tokens : SeqsUpTo({"a", "S", "x"}, 1)]

InitLanguage ==
    /\ pc = "language"
    /\ language \in IndentLanguages \cup DeclLanguages
    /\ indent_info = <<>>
    /\ regex = <<>>
    /\ grammar = <<>>
    /\ pip = <<>>
    /\ tracing = <<>>
    /\ tables = <<>>
    /\ NoMemo
    /\ fa = NoFA
    /\ dfa = NoFA
    /\ sdfa = NoFA
    /\ vstack = <<>>
    /\ result_token = 0
    /\ lexer = NoFA
    /\ token_dfas = <<>>

BuildIndentInfo ==
    /\ pc = "language"
    /\ indent_info' = build_indent_info(language)
    /\ pc' = IF Thrown(indent_info') THEN "indent_info_thrown" ELSE "indent_info"
    /\ UNCHANGED <<language, regex, grammar, pip, tracing, tables>>
    /\ UNCHANGED <<automaton_vars, memo_vars>>

BuildGrammar ==
    /\ pc \in {"language", "indent_info"}
    /\ grammar' = build_grammar(language)
    /\ pc' = IF Thrown(grammar') THEN "grammar_thrown" ELSE "grammar_built"
    /\ UNCHANGED <<language, indent_info, regex, pip, tracing, tables>>
    /\ UNCHANGED <<automaton_vars, memo_vars>>

NextLanguage == BuildIndentInfo \/ BuildGrammar

SpecLanguage == InitLanguage /\ [][NextLanguage]_vars

\* the 0-based declaration indices of the tokens named name
Declared(name) == {i \in 0 .. (Len(language.tokens) - 1) : At(language.tokens, i) = name}

\* the index of the one token named name
TheToken(name) == CHOOSE i \in Declared(name) : TRUE

IndentTriadDeclared ==
    /\ \A name \in {"INDENT", "DEDENT", "NEWLINE"} : Cardinality(Declared(name)) = 1
    /\ TheToken("NEWLINE") < TheToken("INDENT")
    /\ TheToken("NEWLINE") < TheToken("DEDENT")

(***************************************************************************)
(* C11: for a language that declares an INDENT token, build_indent_info    *)
(* returns iff INDENT, DEDENT and NEWLINE are each declared exactly once   *)
(* and NEWLINE is declared before INDENT and DEDENT; it then returns       *)
(* is_sensitive = true and the three declaration indices; otherwise it     *)
(* throws std::invalid_argument.                                           *)
(***************************************************************************)
C11_IndentTriad ==
    indent_info # <<>> /\ Declared("INDENT") # {} =>
        IF IndentTriadDeclared
        THEN indent_info = [is_sensitive |-> TRUE,
                            indent_token |-> TheToken("INDENT"),
                            dedent_token |-> TheToken("DEDENT"),
                            newline_token |-> TheToken("NEWLINE")]
        ELSE Thrown(indent_info) /\ indent_info.thrown = "invalid_argument"

\* the triad declared after another token, DEDENT before INDENT
C11_Witness ==
    /\ pc = "indent_info"
    /\ language.tokens = <<"a", "NEWLINE", "DEDENT", "INDENT">>
    /\ indent_info = [is_sensitive |-> TRUE, indent_token |-> 3,
                      dedent_token |-> 2, newline_token |-> 1]

\* the names of the declared tokens and of the left-hand sides
TokenNameSet == Range(language.tokens)
LhsNameSet == {language.productions[i].lhs : i \in 1 .. Len(language.productions)}

\* the first production with the left-hand side name
FirstAppearance(name) ==
    CHOOSE i \in 1 .. Len(language.productions) :
        /\ language.productions[i].lhs = name
        /\ \A j \in 1 .. (i - 1) : language.productions[j].lhs # name

(***************************************************************************)
(* C12: in the grammar build_grammar returns, token i has the terminal id  *)
(* i, the names of the left-hand sides have distinct ids that are not      *)
(* terminal ids, increasing in the order of first appearance, and the lhs  *)
(* of every production is a nonterminal.                                   *)
(***************************************************************************)
C12_SymbolIds ==
    pc = "grammar_built" =>
        LET symbol_map == make_symbol_map(language).symbol_map
        IN /\ \A i \in 0 .. (Len(language.tokens) - 1) :
                  symbol_map[At(language.tokens, i)] = i
           /\ \A n \in LhsNameSet : symbol_map[n] >= Len(language.tokens)
           /\ \A n1, n2 \in LhsNameSet :
                  FirstAppearance(n1) < FirstAppearance(n2) => symbol_map[n1] < symbol_map[n2]
           /\ \A i \in 1 .. Len(grammar.productions) :
                  ~is_terminal(grammar, grammar.productions[i].lhs)

\* some right-hand side entry is neither a token name nor a left-hand side
UnresolvedRhs ==
    \E i \in 1 .. Len(language.productions) :
        \E k \in 1 .. Len(language.productions[i].rhs) :
            language.productions[i].rhs[k] \notin TokenNameSet \cup LhsNameSet

UnknownSymbolThrown == Thrown(grammar) /\ grammar.thrown = "invalid_argument"

(***************************************************************************)
(* C13 as stated: build_grammar throws the unknown-symbol error            *)
(* (std::invalid_argument) and returns no grammar exactly when some        *)
(* right-hand side entry is neither a token name nor a left-hand side.     *)
(***************************************************************************)
C13_UnknownSymbolFails ==
    grammar # <<>> => (UnknownSymbolThrown <=> UnresolvedRhs)

(***************************************************************************)
(* C13 amended: when no production has an empty left-hand side,            *)
(* build_grammar throws the unknown-symbol error exactly when some         *)
(* right-hand side entry is neither a token name nor a left-hand side;     *)
(* when some production has an empty left-hand side it aborts before any   *)
(* right-hand side is looked up.                                           *)
(***************************************************************************)
C13_UnknownSymbolFailsUnlessAborted ==
    grammar # <<>> =>
        IF "" \in LhsNameSet
        THEN Thrown(grammar) /\ grammar.thrown = "abort"
        ELSE UnknownSymbolThrown <=> UnresolvedRhs

\* the unknown name x on the right-hand side of the second production
C13_Witness ==
    /\ pc = "grammar_thrown"
    /\ UnknownSymbolThrown
    /\ "" \notin LhsNameSet
    /\ Len(language.productions) = 2
    /\ language.productions[1].rhs = <<"a">>
    /\ language.productions[2].rhs = <<"x">>
    /\ language.tokens = <<"a">>

(***************************************************************************)
(* C14: once the productions are resolved, build_grammar returns with      *)
(* every ignored name resolved to the id of a token declared with that     *)
(* name when every ignored name is a declared token name, and throws the   *)
(* unknown-ignored-token error (std::runtime_error) otherwise, also for a  *)
(* name that is only a left-hand side.                                     *)
(***************************************************************************)
C14_IgnoredTokensResolved ==
    grammar # <<>> /\ "" \notin LhsNameSet /\ ~UnresolvedRhs =>
        IF Range(language.ignored_tokens) \subseteq TokenNameSet
        THEN /\ ~Thrown(grammar)
             /\ Len(grammar.ignored_terminals) = Len(language.ignored_tokens)
             /\ \A i \in 1 .. Len(language.ignored_tokens) :
                    /\ grammar.ignored_terminals[i] \in 0 .. (Len(language.tokens) - 1)
                    /\ At(language.tokens, grammar.ignored_terminals[i])
                           = language.ignored_tokens[i]
        ELSE Thrown(grammar) /\ grammar.thrown = "runtime_error"

(***************************************************************************)
(* Regular expressions in progress (regex_in_progress and its subclasses)  *)
(* and their text.  A character is a one-character string, a text is a     *)
(* sequence of characters.  Ascii lists the characters of the character    *)
(* table that occur, in the order of their codes, which is the order a     *)
(* std::set<char> is walked in.  The automata have a column for each of    *)
(* the first NCHARS - 1 characters of CharTab and one last column that     *)
(* stands for every other character of the table: an automaton that        *)
(* accepts a string with the last symbol accepts a string with a character *)
(* that is none of the first ones.                                         *)
(***************************************************************************)
NCHARS == 7      \* columns of the automata over the character table

Ascii ==
    <<"(", ")", "*", "+", "-", ".", "0", "1", "9", "?", "A", "B", "L", "N", "U", "Z",
      "[", "\\", "]", "^", "a", "b", "c", "d", "e", "i", "l", "n", "o", "p", "s", "z", "|">>

\* the characters with a column of their own come first
CharTab == <<"a", "b", "c", "d", ".", "\\", "e", "*", "p">>

all_chars == {Ascii[i] : i \in 1 .. Len(Ascii)}
get_char(symbol) == CharTab[symbol + 1]
get_symbol(c) ==
    IF \E symbol \in 0 .. (NCHARS - 2) : get_char(symbol) = c
    THEN CHOOSE symbol \in 0 .. (NCHARS - 2) : get_char(symbol) = c
    ELSE NCHARS - 1
negate_set(s) == all_chars \ s

code(c) == CHOOSE i \in 1 .. Len(Ascii) : Ascii[i] = c

RECURSIVE sorted_chars(_)
\* the characters of a std::set<char> in the order they are walked in
sorted_chars(s) ==
    IF s = {} THEN <<>>
    ELSE LET c == CHOOSE x \in s : \A y \in s : code(x) <= code(y)
         IN <<c>> \o sorted_chars(s \ {c})

chars_between(first, last) == {Ascii[i] : i \in code(first) .. code(last)}

has_range(s, first, last) == chars_between(first, last) \subseteq s
remove_range(s, first, last) == s \ chars_between(first, last)

\* the character '\b', which from_charset prints for the empty set
backspace == "backspace"

specials == {".", "[", "]", "(", ")", "|", "-", "^", "*", "+", "?"}

RECURSIVE escape_chars(_)
\* the loop of internal_from_charset over the remaining characters
escape_chars(cs) ==
    IF cs = <<>> THEN <<>>
    ELSE (IF Head(cs) \in specials THEN <<"\\", Head(cs)>> ELSE <<Head(cs)>>)
         \o escape_chars(Tail(cs))

internal_from_charset(s) ==
    LET lower == has_range(s, "a", "z")
        s1 == IF lower THEN remove_range(s, "a", "z") ELSE s
        upper == has_range(s1, "A", "Z")
        s2 == IF upper THEN remove_range(s1, "A", "Z") ELSE s1
        digits == has_range(s2, "0", "9")
        s3 == IF digits THEN remove_range(s2, "0", "9") ELSE s2
    IN (IF lower THEN <<"a", "-", "z">> ELSE <<>>)
       \o (IF upper THEN <<"A", "-", "Z">> ELSE <<>>)
       \o (IF digits THEN <<"0", "-", "9">> ELSE <<>>)
       \o escape_chars(sorted_chars(s3))

\* from_charset that escapes a lone special character
from_charset_escaped(s) ==
    IF s = {} THEN <<backspace>>
    ELSE IF Cardinality(s) = 1 THEN escape_chars(sorted_chars(s))
    ELSE LET positive_contents == internal_from_charset(s)
             negative_contents == internal_from_charset(negate_set(s))
         IN IF Len(positive_contents) <= Len(negative_contents)
            THEN <<"[">> \o positive_contents \o <<"]">>
            ELSE <<"[", "^">> \o negative_contents \o <<"]">>

from_charset(s) ==
    IF s = {} THEN <<backspace>>
    ELSE IF Cardinality(s) = 1 THEN sorted_chars(s)
    ELSE LET positive_contents == internal_from_charset(s)
             negative_contents == internal_from_charset(negate_set(s))
         IN IF Len(positive_contents) <= Len(negative_contents)
            THEN <<"[">> \o positive_contents \o <<"]">>
            ELSE <<"[", "^">> \o negative_contents \o <<"]">>

regex_null == [type |-> "null"]
regex_epsilon == [type |-> "epsilon"]
regex_charset(characters) == [type |-> "charset", characters |-> characters]
regex_either(subexpressions) == [type |-> "either", subexpressions |-> subexpressions]
regex_concat(subexpressions) == [type |-> "concat", subexpressions |-> subexpressions]
regex_star(subexpression) == [type |-> "star", subexpression |-> subexpression]
\* the null pointer a method returns when it cannot combine
nullptr == [type |-> "nullptr"]

RECURSIVE equals(_, _)
\* operator== of the subclasses
equals(a, b) ==
    IF a.type # b.type THEN FALSE
    ELSE CASE a.type = "charset" -> a.characters = b.characters
           [] a.type = "either" ->
                /\ Len(a.subexpressions) = Len(b.subexpressions)
                /\ \A i \in 1 .. Len(b.subexpressions) :
                       \E j \in 1 .. Len(a.subexpressions) :
                           equals(b.subexpressions[i], a.subexpressions[j])
           [] a.type = "concat" ->
                /\ Len(a.subexpressions) = Len(b.subexpressions)
                /\ \A i \in 1 .. Len(a.subexpressions) :
                       equals(a.subexpressions[i], b.subexpressions[i])
           [] a.type = "star" -> equals(b.subexpression, a.subexpression)
           [] OTHER -> TRUE

\* the subexpressions of a regex_either that are not regex_epsilon
non_epsilon(self) == SelectSeq(self.subexpressions, LAMBDA se : se.type # "epsilon")

has_epsilon(self) == \E i \in 1 .. Len(self.subexpressions) : self.subexpressions[i].type = "epsilon"

is_question(self) == Len(self.subexpressions) = 2 /\ has_epsilon(self)

only_subexpression(self) ==
    IF non_epsilon(self) = <<>> THEN nullptr ELSE Head(non_epsilon(self))

RECURSIVE needs_parentheses(_)
RECURSIVE internal_needs_parentheses(_)
internal_needs_parentheses(self) ==
    LET others == non_epsilon(self)
    IN Len(others) > 1 \/ (others # <<>> /\ needs_parentheses(others[Len(others)]))

needs_parentheses(r) ==
    CASE r.type = "null" -> FALSE
      [] r.type = "epsilon" -> TRUE
      [] r.type = "charset" -> FALSE
      [] r.type = "either" -> IF has_epsilon(r) THEN FALSE ELSE internal_needs_parentheses(r)
      [] r.type = "concat" -> TRUE
      [] r.type = "star" -> FALSE

RECURSIVE print(_)
RECURSIVE print_either(_, _)
RECURSIVE print_concat(_)
\* the loop of regex_either::print over the subexpressions that are not
\* epsilon
print_either(others, had_non_epsilon) ==
    IF others = <<>> THEN <<>>
    ELSE (IF had_non_epsilon THEN <<"|">> ELSE <<>>) \o print(Head(others))
         \o print_either(Tail(others), TRUE)

\* the loop of regex_concat::print
print_concat(subexpressions) ==
    IF subexpressions = <<>> THEN <<>>
    ELSE (IF needs_parentheses(Head(subexpressions))
          THEN <<"(">> \o print(Head(subexpressions)) \o <<")">>
          ELSE print(Head(subexpressions)))
         \o print_concat(Tail(subexpressions))

print(r) ==
    CASE r.type = "null" -> <<"N", "U", "L", "L">>
      [] r.type = "epsilon" -> <<"e", "p", "s", "i", "l", "o", "n">>
      [] r.type = "charset" -> from_charset(r.characters)
      [] r.type = "either" ->
            LET result == print_either(non_epsilon(r), FALSE)
            IN IF has_epsilon(r)
               THEN (IF internal_needs_parentheses(r)
                     THEN <<"(">> \o result \o <<")">> ELSE result) \o <<"?">>
               ELSE result
      [] r.type = "concat" -> print_concat(r.subexpressions)
      [] r.type = "star" ->
            (IF needs_parentheses(r.subexpression)
             THEN <<"(">> \o print(r.subexpression) \o <<")">>
             ELSE print(r.subexpression)) \o <<"*">>

(***************************************************************************)
(* The combinators either, concat and star of regex_in_progress and the    *)
(* methods of the subclasses they call.  A method of a class has the       *)
(* object as its first argument.                                           *)
(***************************************************************************)
RECURSIVE either(_, _)
RECURSIVE regex_concat_of(_, _)
RECURSIVE regex_star_of(_)
RECURSIVE either_with_loop(_, _, _, _)
RECURSIVE regex_concat_either_with(_, _)
RECURSIVE append_loop(_, _)
RECURSIVE prepend_loop(_, _)
RECURSIVE add_loop(_, _, _, _)

\* regex_either::insert
insert(self, other) ==
    IF \E i \in 1 .. Len(self.subexpressions) : equals(self.subexpressions[i], other)
    THEN self
    ELSE regex_either(Append(self.subexpressions, other))

\* regex_charset::either_with
regex_charset_either_with(self, other) ==
    regex_charset(self.characters \cup other.characters)

\* the loop of regex_either::either_with over the subexpressions
either_with_loop(ses, other, result, did_combine) ==
    IF ses = <<>> THEN IF did_combine THEN result ELSE insert(result, other)
    ELSE LET combined == either(Head(ses), other)
         IN IF combined.type # "either"
            THEN either_with_loop(Tail(ses), other, insert(result, combined), TRUE)
            ELSE either_with_loop(Tail(ses), other, insert(result, Head(ses)), did_combine)

\* regex_either::either_with; the test typeid(other) == typeid(regex_either)
\* is made on the pointer and never holds
regex_either_either_with(self, other) ==
    either_with_loop(self.subexpressions, other, regex_either(<<>>), FALSE)

\* regex_either::remove_epsilon
remove_epsilon(self) ==
    IF Len(self.subexpressions) = 2 THEN only_subexpression(self)
    ELSE regex_either(non_epsilon(self))

\* regex_concat::add
add(self, other) ==
    IF other.type = "concat" THEN regex_concat(self.subexpressions \o other.subexpressions)
    ELSE regex_concat(Append(self.subexpressions, other))

Min(S) == CHOOSE x \in S : \A y \in S : x <= y

get_common_prefix_size(self, other) ==
    LET max_size == Len(other.subexpressions)
    IN Min({max_size} \cup
           {size \in 0 .. (max_size - 1) :
               ~equals(self.subexpressions[size + 1], other.subexpressions[size + 1])})

get_common_suffix_size(self, other) ==
    LET max_size == Len(other.subexpressions)
    IN Min({max_size} \cup
           {size \in 0 .. (max_size - 1) :
               ~equals(self.subexpressions[Len(self.subexpressions) - size],
                       other.subexpressions[Len(other.subexpressions) - size])})

starts_with(self, other) == equals(self.subexpressions[1], other)
ends_with(self, other) == equals(self.subexpressions[Len(self.subexpressions)], other)

\* the loop of get_first_n and get_last_n: add subexpressions[offset + i]
\* for i = 0 .. n-1
add_loop(self, offset, i, n) ==
    IF i = n THEN regex_concat(<<>>)
    ELSE LET rest == add_loop(self, offset, i + 1, n)
             first == add(regex_concat(<<>>), self.subexpressions[offset + i + 1])
         IN regex_concat(first.subexpressions \o rest.subexpressions)

get_first_n(self, n) ==
    IF n = 0 THEN regex_epsilon
    ELSE IF n = 1 THEN self.subexpressions[1]
    ELSE add_loop(self, 0, 0, n)

get_last_n(self, n) ==
    IF n = 0 THEN regex_epsilon
    ELSE IF n = 1 THEN self.subexpressions[Len(self.subexpressions)]
    ELSE add_loop(self, Len(self.subexpressions) - n, 0, n)

\* regex_concat::either_with
regex_concat_either_with(self, other) ==
    LET size == Len(self.subexpressions)
    IN IF other.type = "concat"
       THEN LET other_size == Len(other.subexpressions)
                common_suffix_size == get_common_suffix_size(self, other)
                common_prefix_size == get_common_prefix_size(self, other)
            IN IF other_size > size THEN regex_concat_either_with(other, self)
               ELSE IF common_suffix_size > 0
               THEN regex_concat_of(
                        either(get_first_n(self, size - common_suffix_size),
                               get_first_n(other, other_size - common_suffix_size)),
                        get_last_n(self, common_suffix_size))
               ELSE IF common_prefix_size > 0
               THEN regex_concat_of(
                        get_first_n(self, common_prefix_size),
                        either(get_last_n(self, size - common_prefix_size),
                               get_last_n(other, other_size - common_prefix_size)))
               ELSE nullptr
       ELSE IF ends_with(self, other)
       THEN regex_concat_of(either(get_first_n(self, size - 1), regex_epsilon), other)
       ELSE IF starts_with(self, other)
       THEN regex_concat_of(other, either(get_last_n(self, size - 1), regex_epsilon))
       ELSE nullptr

\* the loop of regex_concat::append_with over the subexpressions of other
append_loop(result, ses) ==
    IF ses = <<>> THEN result
    ELSE append_loop(regex_concat_of(result, Head(ses)), Tail(ses))

\* regex_concat::append_with
append_with(self, other) ==
    IF other.type = "concat" THEN append_loop(self, other.subexpressions)
    ELSE LET all_but_last == get_first_n(self, Len(self.subexpressions) - 1)
             last == get_last_n(self, 1)
             combined == regex_concat_of(last, other)
         IN IF combined.type = "concat"
            THEN add(add(regex_concat(<<>>), all_but_last), combined)
            ELSE regex_concat_of(all_but_last, combined)

\* the loop of regex_concat::prepend_with over the subexpressions of other,
\* last first
prepend_loop(result, ses) ==
    IF ses = <<>> THEN result
    ELSE prepend_loop(regex_concat_of(ses[Len(ses)], result), SubSeq(ses, 1, Len(ses) - 1))

\* regex_concat::prepend_with
prepend_with(self, other) ==
    IF other.type = "concat" THEN prepend_loop(self, other.subexpressions)
    ELSE LET all_but_first == get_last_n(self, Len(self.subexpressions) - 1)
             first == get_first_n(self, 1)
             combined == regex_concat_of(other, first)
         IN IF combined.type = "concat"
            THEN add(add(regex_concat(<<>>), combined), all_but_first)
            ELSE regex_concat_of(combined, all_but_first)

\* regex_star::concat_with
concat_with(self, other) ==
    IF other.type = "star" /\ equals(self.subexpression, other.subexpression) THEN self
    ELSE IF /\ other.type = "either"
            /\ is_question(other)
            /\ equals(self.subexpression, only_subexpression(other))
    THEN regex_star(only_subexpression(other))
    ELSE nullptr

\* regex_star::either_with
regex_star_either_with(self, other) ==
    IF other.type = "epsilon" THEN self
    ELSE IF other.type = "star" /\ equals(self.subexpression, other.subexpression) THEN self
    ELSE IF /\ other.type = "either"
            /\ is_question(other)
            /\ equals(only_subexpression(other), self.subexpression)
    THEN self
    ELSE nullptr

either(a, b) ==
    LET a_star == IF a.type = "star" THEN regex_star_either_with(a, b) ELSE nullptr
        b_star == IF b.type = "star" THEN regex_star_either_with(b, a) ELSE nullptr
        a_concat == IF a.type = "concat" THEN regex_concat_either_with(a, b) ELSE nullptr
        b_concat == IF b.type = "concat" THEN regex_concat_either_with(b, a) ELSE nullptr
    IN IF equals(a, b) THEN a
       ELSE IF a.type = "null" THEN b
       ELSE IF b.type = "null" THEN a
       ELSE IF a_star # nullptr THEN a_star
       ELSE IF b_star # nullptr THEN b_star
       ELSE IF a_concat # nullptr THEN a_concat
       ELSE IF b_concat # nullptr THEN b_concat
       ELSE IF a.type = "either" THEN regex_either_either_with(a, b)
       ELSE IF b.type = "either" THEN regex_either_either_with(b, a)
       ELSE IF a.type = "charset" /\ b.type = "charset" THEN regex_charset_either_with(a, b)
       ELSE IF a.type = "epsilon" /\ b.type = "epsilon" THEN regex_epsilon
       ELSE insert(insert(regex_either(<<>>), a), b)

regex_star_of(a) ==
    IF a.type = "null" THEN regex_null
    ELSE IF a.type = "epsilon" THEN regex_epsilon
    ELSE IF a.type = "star" THEN a
    ELSE IF a.type = "either" /\ has_epsilon(a) THEN regex_star_of(remove_epsilon(a))
    ELSE regex_star(a)

regex_concat_of(a, b) ==
    LET a_star == IF a.type = "star" THEN concat_with(a, b) ELSE nullptr
        b_star == IF b.type = "star" THEN concat_with(b, a) ELSE nullptr
    IN IF a.type = "null" \/ b.type = "null" THEN regex_null
       ELSE IF a.type = "epsilon" THEN b
       ELSE IF b.type = "epsilon" THEN a
       ELSE IF a_star # nullptr THEN a_star
       ELSE IF b_star # nullptr THEN b_star
       ELSE IF a.type = "concat" THEN append_with(a, b)
       ELSE IF b.type = "concat" THEN prepend_with(b, a)
       ELSE add(add(regex_concat(<<>>), a), b)

(***************************************************************************)
(* from_automaton: state elimination on the matrix L of the expressions    *)
(* between the states of a deterministic automaton and one more state, the *)
(* single accepting state.  L[i][j] is updated in place, in loop order.    *)
(***************************************************************************)
\* update_path
update_path(i, j, k, L) ==
    [L EXCEPT ![i][j] =
        either(L[i][j], regex_concat_of(L[i][k], regex_concat_of(regex_star_of(L[k][k]), L[k][j])))]

RECURSIVE add_symbol_transitions(_, _, _, _)
\* the loop of from_automaton over the transitions, from (i, s) on
add_symbol_transitions(a, L, i, s) ==
    IF i >= get_nstates(a) THEN L
    ELSE IF s >= get_nsymbols(a) THEN add_symbol_transitions(a, L, i + 1, 0)
    ELSE LET j == step(a, i, s)
         IN IF j < 0 THEN add_symbol_transitions(a, L, i, s + 1)
            ELSE only({add_symbol_transitions(a, L1, i, s + 1) :
                         L1 \in {[L EXCEPT ![i][j] =
                                     either(L[i][j], regex_charset({get_char(s)}))]}})

\* the loop that gives every accepting state an epsilon path to the single
\* accepting state
add_accept_paths(a, L) ==
    [i \in DOMAIN L |->
        IF i < get_nstates(a) /\ accepts(a, i) # -1
        THEN [L[i] EXCEPT ![get_nstates(a)] = regex_epsilon]
        ELSE L[i]]

SumOver(f, S) ==
    LET RECURSIVE sum(_)
        sum(T) == IF T = {} THEN 0
                  ELSE LET x == CHOOSE y \in T : TRUE IN f[x] + sum(T \ {x})
    IN sum(S)

\* the weight of vertex i in the heuristic of Delgado and Morais
weight(L, nstates, i) ==
    LET out == Cardinality({j \in 0 .. nstates : L[i][j].type # "null"})
        in == Cardinality({j \in 0 .. nstates : L[j][i].type # "null"})
        loop == IF L[i][i].type # "null" THEN Len(print(L[i][i])) * (in * out - 1) ELSE 0
        paths == [j \in 0 .. nstates |->
                    (IF L[i][j].type # "null" THEN Len(print(L[i][j])) * (in - 1) ELSE 0)
                    + (IF L[j][i].type # "null" THEN Len(print(L[j][i])) * (out - 1) ELSE 0)]
    IN loop + SumOver(paths, 0 .. nstates)

\* the vertex the loop over i picks: the first one of minimum weight
min_weight_state(L, nstates, vertex_exists) ==
    LET vertices == {i \in 1 .. (nstates - 1) : vertex_exists[i]}
    IN CHOOSE k \in vertices :
          \A i \in vertices :
              \/ weight(L, nstates, k) < weight(L, nstates, i)
              \/ weight(L, nstates, k) = weight(L, nstates, i) /\ k <= i

RECURSIVE remove_vertex(_, _, _, _, _, _)
\* the loops over i and j that remove the vertex k, from (i, j) on
remove_vertex(L, nstates, vertex_exists, k, i, j) ==
    IF i > nstates THEN L
    ELSE IF ~vertex_exists[i] \/ j > nstates
         THEN remove_vertex(L, nstates, vertex_exists, k, i + 1, 0)
    ELSE IF ~vertex_exists[j] THEN remove_vertex(L, nstates, vertex_exists, k, i, j + 1)
    ELSE only({remove_vertex(L4, nstates, vertex_exists, k, i, j + 1) :
                 L4 \in {update_path(j, i, k, L3) :
                 L3 \in {update_path(i, j, k, L2) :
                 L2 \in {update_path(j, j, k, L1) :
                 L1 \in {update_path(i, i, k, L)}}}}})

RECURSIVE remove_vertices(_, _, _, _)
\* the loop over step
remove_vertices(L, nstates, vertex_exists, step_i) ==
    IF step_i >= nstates - 1 THEN L
    ELSE only({only({remove_vertices(L1, nstates, [vertex_exists EXCEPT ![k] = FALSE],
                                     step_i + 1) :
                       L1 \in {remove_vertex(L, nstates, vertex_exists, k, 0, 0)}}) :
                 k \in {min_weight_state(L, nstates, vertex_exists)}})

\* the expression from_automaton prints
automaton_expression(a) ==
    LET nstates == get_nstates(a)
        L0 == [i \in 0 .. nstates |->
                 [j \in 0 .. nstates |-> IF i = j THEN regex_epsilon ELSE regex_null]]
        f == nstates
        s == 0
    IN only({regex_concat_of(regex_star_of(L[s][s]),
                regex_concat_of(L[s][f],
                   regex_star_of(either(
                      regex_concat_of(L[f][s], regex_concat_of(regex_star_of(L[s][s]), L[s][f])),
                      L[f][f])))) :
               L \in {remove_vertices(L1, nstates, [i \in 0 .. nstates |-> TRUE], 0) :
               L1 \in {add_accept_paths(a, L2) :
               L2 \in {add_symbol_transitions(a, L0, 0, 0)}}}})

from_automaton(a) == print(automaton_expression(a))

(***************************************************************************)
(* build_dfa: the text of a regular expression is cut into tokens by the   *)
(* automaton of regex::build_lexer, parsed by the grammar of               *)
(* regex::build_language, and every reduction applies                      *)
(* regex::parser::reduce.  Parsing is written as a descent over the        *)
(* grammar's productions, unions, concatenations and qualifiers            *)
(* associating to the left as the productions do.                          *)
(***************************************************************************)
parse_error == [thrown |-> "parse_error"]

meta_chars_str == <<".", "[", "]", "(", ")", "|", "-", "^", "*", "+", "?">>
meta_chars == {meta_chars_str[i] : i \in 1 .. Len(meta_chars_str)}

RECURSIVE tokenize(_)
\* the tokens of regex::build_lexer with the values regex::parser::shift
\* gives them: TOK_CHAR for a character that is not a metacharacter or for
\* a backslash and any character, else the token of the metacharacter
tokenize(text) ==
    IF text = <<>> THEN <<>>
    ELSE IF Head(text) \notin all_chars THEN <<[token |-> "error"]>>
    ELSE IF Head(text) = "\\"
         THEN IF Len(text) >= 2 /\ text[2] \in all_chars
              THEN <<[token |-> "char", text |-> text[2]]>> \o tokenize(Tail(Tail(text)))
              ELSE <<[token |-> "error"]>>
    ELSE IF Head(text) \in meta_chars
         THEN <<[token |-> Head(text)]>> \o tokenize(Tail(text))
    ELSE <<[token |-> "char", text |-> Head(text)]>> \o tokenize(Tail(text))

make_char_single_nfa(c, token) == make_single_nfa(NCHARS, get_symbol(c), token)
make_char_set_nfa(s, token) == make_set_nfa(NCHARS, {get_symbol(c) : c \in s}, token)

next_is(ts, token) == ts # <<>> /\ Head(ts).token = token
failed(ts) == [ok |-> FALSE, rest |-> ts]
parsed(value, ts) == [ok |-> TRUE, value |-> value, rest |-> ts]

\* set-item ::= char | range;  range ::= char - char
parse_set_item(ts) ==
    IF ~next_is(ts, "char") THEN failed(ts)
    ELSE IF next_is(Tail(ts), "-")
         THEN IF next_is(Tail(Tail(ts)), "char")
              THEN parsed(chars_between(ts[1].text, ts[3].text), Tail(Tail(Tail(ts))))
              ELSE failed(ts)
    ELSE parsed({ts[1].text}, Tail(ts))

RECURSIVE parse_more_set_items(_, _)
\* set-items ::= set-items set-item
parse_more_set_items(items, ts) ==
    IF ~next_is(ts, "char") THEN parsed(items, ts)
    ELSE only({IF item.ok THEN parse_more_set_items(items \cup item.value, item.rest)
               ELSE item : item \in {parse_set_item(ts)}})

\* set-items ::= set-item | set-items set-item
parse_set_items(ts) ==
    only({IF item.ok THEN parse_more_set_items(item.value, item.rest)
          ELSE item : item \in {parse_set_item(ts)}})

\* set ::= [ set-items ] | [ ^ set-items ]
parse_set(ts) ==
    only({IF ~items.ok \/ ~next_is(items.rest, "]") THEN failed(ts)
          ELSE parsed(IF next_is(Tail(ts), "^") THEN negate_set(items.value) ELSE items.value,
                      Tail(items.rest)) :
          items \in {parse_set_items(IF next_is(Tail(ts), "^") THEN Tail(Tail(ts)) ELSE Tail(ts))}})

RECURSIVE parse_union(_, _)
RECURSIVE parse_more_union(_, _, _)
RECURSIVE parse_concat(_, _)
RECURSIVE parse_more_concat(_, _, _)
RECURSIVE parse_qualified(_, _)
RECURSIVE parse_qualifiers(_, _, _)
RECURSIVE parse_single(_, _)

\* single ::= char | . | set | ( union )
parse_single(ts, result_tok) ==
    IF next_is(ts, "char") THEN parsed(make_char_single_nfa(ts[1].text, result_tok), Tail(ts))
    ELSE IF next_is(ts, ".")
         THEN parsed(make_range_nfa(NCHARS, 0, NCHARS - 1, result_tok), Tail(ts))
    ELSE IF next_is(ts, "[")
         THEN only({IF set.ok THEN parsed(make_char_set_nfa(set.value, result_tok), set.rest)
                    ELSE set : set \in {parse_set(ts)}})
    ELSE IF next_is(ts, "(")
         THEN only({IF inner.ok /\ next_is(inner.rest, ")")
                    THEN parsed(inner.value, Tail(inner.rest))
                    ELSE failed(ts) : inner \in {parse_union(Tail(ts), result_tok)}})
    ELSE failed(ts)

\* qualified ::= qualified * | qualified + | qualified ?
parse_qualifiers(value, ts, result_tok) ==
    IF next_is(ts, "*")
    THEN only({parse_qualifiers(v, Tail(ts), result_tok) : v \in {star(value, result_tok)}})
    ELSE IF next_is(ts, "+")
    THEN only({parse_qualifiers(v, Tail(ts), result_tok) : v \in {plus(value, result_tok)}})
    ELSE IF next_is(ts, "?")
    THEN only({parse_qualifiers(v, Tail(ts), result_tok) : v \in {maybe(value, result_tok)}})
    ELSE parsed(value, ts)

\* qualified ::= single | ...
parse_qualified(ts, result_tok) ==
    only({IF single.ok THEN parse_qualifiers(single.value, single.rest, result_tok)
          ELSE single : single \in {parse_single(ts, result_tok)}})

\* concat ::= concat qualified
parse_more_concat(value, ts, result_tok) ==
    IF ts = <<>> \/ Head(ts).token \notin {"char", ".", "[", "("} THEN parsed(value, ts)
    ELSE only({IF qualified.ok
               THEN only({parse_more_concat(v, qualified.rest, result_tok) :
                            v \in {concat(value, qualified.value, result_tok)}})
               ELSE qualified : qualified \in {parse_qualified(ts, result_tok)}})

\* concat ::= qualified | ...
parse_concat(ts, result_tok) ==
    only({IF qualified.ok THEN parse_more_concat(qualified.value, qualified.rest, result_tok)
          ELSE qualified : qualified \in {parse_qualified(ts, result_tok)}})

\* union ::= union | concat
parse_more_union(value, ts, result_tok) ==
    IF ~next_is(ts, "|") THEN parsed(value, ts)
    ELSE only({IF more.ok
               THEN only({parse_more_union(v, more.rest, result_tok) :
                            v \in {unite(value, more.value)}})
               ELSE more : more \in {parse_concat(Tail(ts), result_tok)}})

\* union ::= concat | ...
parse_union(ts, result_tok) ==
    only({IF first.ok THEN parse_more_union(first.value, first.rest, result_tok)
          ELSE first : first \in {parse_concat(ts, result_tok)}})

\* regex ::= union, reduced to simplify(make_deterministic(union)); a text
\* that is not a regular expression throws parse_error
build_dfa(regex_text, token) ==
    only({IF parse.ok /\ parse.rest = <<>>
          THEN simplify(make_deterministic(parse.value))
          ELSE parse_error : parse \in {parse_union(tokenize(regex_text), token)}})

(***************************************************************************)
(* SpecRoundTrip: from_automaton prints a deterministic automaton as a     *)
(* regular expression and build_dfa reads the text back.  The automaton    *)
(* has transitions on the characters of DfaChars, and all its states are   *)
(* reachable from state 0, as make_deterministic and simplify leave them.  *)
(***************************************************************************)
MaxDfaStates == 3        \* states of the automaton that is printed
MaxDfaTransitions == 3   \* transitions of the automaton that is printed
MaxTextLen == 3          \* length of the strings both automata are run on

\* the characters the printed automaton has transitions on, and their symbols
DfaChars == {"a", "b", ".", "\\"}
DfaSymbols == {get_symbol(c) : c \in DfaChars}

\* the deterministic automaton of nstates states over the character table
\* with the transitions delta and the accepting states accepting
automaton_of(nstates, delta, accepting) ==
    [is_deterministic |-> TRUE, ncols |-> NCHARS,
     table |-> [i \in 1 .. nstates |->
                  [j \in 1 .. NCHARS |->
                      IF <<i - 1, j - 1>> \in DOMAIN delta THEN delta[<<i - 1, j - 1>>] ELSE -1]],
     accepted_tokens |-> [i \in 1 .. nstates |-> IF (i - 1) \in accepting THEN 0 ELSE -1],
     asserted |-> FALSE]

RECURSIVE reachable_states(_, _)
reachable_states(a, S) ==
    LET T == S \cup ({step(a, p, symbol) : p \in S, symbol \in 0 .. (get_nsymbols(a) - 1)} \ {-1})
    IN IF T = S THEN S ELSE reachable_states(a, T)

RECURSIVE TextsUpTo(_)
\* the strings both automata are run on, of the symbols of DfaChars and the
\* last symbol
TextsUpTo(n) ==
    IF n = 0 THEN {<<>>}
    ELSE LET P == TextsUpTo(n - 1)
         IN P \cup {Append(s, symbol) : s \in {p \in P : Len(p) = n - 1},
                                        symbol \in DfaSymbols \cup {NCHARS - 1}}

Texts == TextsUpTo(MaxTextLen)

InitRoundTrip ==
    /\ pc = "automaton"
    /\ \E nstates \in 1 .. MaxDfaStates :
          \E cells \in SUBSET ((0 .. (nstates - 1)) \X DfaSymbols) :
             /\ Cardinality(cells) <= MaxDfaTransitions
             /\ \E delta \in [cells -> 0 .. (nstates - 1)],
                   accepting \in SUBSET (0 .. (nstates - 1)) :
                   /\ fa = automaton_of(nstates, delta, accepting)
                   /\ reachable_states(fa, {0}) = 0 .. (nstates - 1)
    /\ dfa = NoFA
    /\ sdfa = NoFA
    /\ vstack = <<>>
    /\ result_token = 0
    /\ lexer = NoFA
    /\ token_dfas = <<>>
    /\ NoParser
    /\ NoLanguage
    /\ NoMemo

FromAutomaton ==
    /\ pc = "automaton"
    /\ regex' = from_automaton(fa)
    /\ pc' = "regex"
    /\ UNCHANGED <<automaton_vars, parser_vars, language, indent_info, memo_vars>>

\* build_dfa on the printed text: a finite_automaton or parse_error
BuildDfa ==
    /\ pc = "regex"
    /\ \E built \in {build_dfa(regex, result_token)} :
          IF Thrown(built)
          THEN pc' = "parse_error" /\ sdfa' = sdfa
          ELSE pc' = "rebuilt" /\ sdfa' = built
    /\ UNCHANGED <<fa, dfa, vstack, result_token, lexer, token_dfas>>
    /\ UNCHANGED <<parser_vars, language_vars, memo_vars>>

NextRoundTrip ==
    \/ FromAutomaton
    \/ BuildDfa

SpecRoundTrip == InitRoundTrip /\ [][NextRoundTrip]_vars

LettersOnly ==
    /\ \A state \in 0 .. (get_nstates(fa) - 1), symbol \in 0 .. (NCHARS - 1) :
          step(fa, state, symbol) # -1 => get_char(symbol) \in {"a", "b"}
    /\ \E s \in Texts : s # <<>> /\ run(fa, s) # -1

\* the round trip preserves the language of such an automaton
RoundTripOfLetters ==
    LettersOnly =>
        /\ pc # "parse_error"
        /\ pc = "rebuilt" => \A s \in Texts : (run(sdfa, s) # -1) <=> (run(fa, s) # -1)

(***************************************************************************)
(* SpecExample: the regular expression x(y|z)*w over four letters, built   *)
(* as regex::parser::reduce builds it: the letters by                      *)
(* make_char_single_nfa, then unite, star and concat, and at last          *)
(* simplify(make_deterministic(...)).                                      *)
(***************************************************************************)
ExampleChars == {"a", "b", "c", "d"}

\* the text of the regular expression x(y|z)*w
example_text(x, y, z, w) == <<x, "(", y, "|", z, ")", "*", w>>

\* the automaton the reductions of the text x(y|z)*w leave on the stack
example_nfa(text, token) ==
    LET x == make_char_single_nfa(text[1], token)
        y == make_char_single_nfa(text[3], token)
        z == make_char_single_nfa(text[5], token)
        w == make_char_single_nfa(text[8], token)
    IN only({concat(xs, w, token) :
                xs \in {concat(x, s, token) :
                           s \in {star(u, token) : u \in {unite(y, z)}}}})

RECURSIVE symbols_of(_)
\* the symbols of the characters of a string
symbols_of(text) ==
    IF text = <<>> THEN <<>> ELSE <<get_symbol(Head(text))>> \o symbols_of(Tail(text))

InitExample ==
    /\ pc = "example"
    /\ \E x \in ExampleChars, y \in ExampleChars, z \in ExampleChars, w \in ExampleChars :
          regex = example_text(x, y, z, w)
    /\ result_token \in Tokens
    /\ fa = NoFA
    /\ dfa = NoFA
    /\ sdfa = NoFA
    /\ vstack = <<>>
    /\ lexer = NoFA
    /\ token_dfas = <<>>
    /\ NoParser
    /\ language = <<>>
    /\ indent_info = <<>>
    /\ NoMemo

BuildExample ==
    /\ pc = "example"
    /\ \E nfa \in {example_nfa(regex, result_token)} :
          /\ fa' = nfa
          /\ \E determinized \in {make_deterministic(nfa)} :
                /\ dfa' = determinized
                /\ \E simplified \in {simplify(determinized)} : sdfa' = simplified
    /\ pc' = "reduced"
    /\ UNCHANGED <<vstack, result_token, lexer, token_dfas>>
    /\ UNCHANGED <<parser_vars, language_vars, memo_vars>>

NextExample == BuildExample

SpecExample == InitExample /\ [][NextExample]_vars

AcceptingWithEpsilon(a) ==
    {state \in 0 .. (get_nstates(a) - 1) :
        /\ accepts(a, state) # -1
        /\ \E epsilon \in EpsilonColumns(a) : step(a, state, epsilon) # -1}

C17_AcceptingStatesHaveNoEpsilon ==
    \A i \in 1 .. Len(vstack) :
        /\ AcceptingWithEpsilon(vstack[i]) = {}
        /\ ~vstack[i].asserted

\* a combinator gave epsilon transitions to states that were accepting in
\* its operand: the automaton on the stack is the result of a combinator
\* applied to the result of a combinator, it accepts, and two of its states
\* that do not accept have both epsilon transitions
C17_Witness ==
    /\ Len(vstack) = 1
    /\ ~vstack[1].is_deterministic
    /\ \E state \in 0 .. (get_nstates(vstack[1]) - 1) : accepts(vstack[1], state) # -1
    /\ Cardinality({state \in 0 .. (get_nstates(vstack[1]) - 1) :
                       /\ step(vstack[1], state, get_epsilon0(vstack[1])) # -1
                       /\ step(vstack[1], state, get_epsilon1(vstack[1])) # -1}) >= 2

(***************************************************************************)
(* SpecMemo: callers of regex::ask_parser_tables.  ask_parser_tables and   *)
(* ask_language keep a function-local static shared pointer, test          *)
(* ptr.use_count() == 0, build and ptr.reset(...), and return a copy of    *)
(* ptr; nothing locks.  Every thread runs its calls one after the other;   *)
(* a step is one access to a static or one call or return.  A read of a    *)
(* static while another thread is between the start and the end of its     *)
(* reset is a data race: it may give the old pointer, the new one, or a    *)
(* torn value.                                                             *)
(***************************************************************************)
MaxThreads == 2   \* threads that call ask_parser_tables
MaxCalls == 2     \* calls of ask_parser_tables a thread makes
MaxDepth == 5     \* frames on the call stack of a thread

Torn == -1        \* a pointer read while it was being written
memoized == {"ask_parser_tables", "ask_language"}

\* regex::build_lexer calling build_dfa for its tokens, as
\* parsegen::build_lexer does
regex_build_lexer_by_build_dfa == <<"build_dfa">>

\* regex::build_lexer uses the combinators of finite_automaton only
regex_build_lexer == <<>>

\* the functions a function calls, in order
calls(fn) ==
    CASE fn = "ask_parser_tables" ->
            <<"ask_language", "build_grammar", "build_lalr1_parser", "accept_parser",
              "regex::build_lexer">>
      [] fn = "ask_language" -> <<"build_language">>
      [] fn = "regex::build_lexer" -> regex_build_lexer
      [] fn = "build_dfa" -> <<"regex::parser::parser">>
      [] fn = "regex::parser::parser" -> <<"ask_parser_tables">>
      [] OTHER -> <<>>

\* the frame of a function that was just called
frame(fn) ==
    [fn |-> fn, pc |-> IF fn \in memoized THEN "check" ELSE "calls", called |-> 0, object |-> 0]

\* the values a read of the static of fn by thread t may give
ReadPtr(fn, t) ==
    IF statics.writer[fn] \in {0, t} THEN {statics.ptr[fn]}
    ELSE {statics.ptr[fn], statics.pending[fn], Torn}

set_top(stack, top_frame) == [stack EXCEPT ![Len(stack)] = top_frame]

InitMemo ==
    /\ pc = "memo"
    /\ statics = [ptr |-> [fn \in memoized |-> 0], pending |-> [fn \in memoized |-> 0],
                  writer |-> [fn \in memoized |-> 0], built |-> [fn \in memoized |-> 0],
                  built_in |-> <<>>]
    /\ \E nthreads \in 1 .. MaxThreads :
          threads = [t \in 1 .. nthreads |-> [stack |-> <<>>, ncalls |-> 0, returned |-> <<>>]]
    /\ fa = NoFA
    /\ dfa = NoFA
    /\ sdfa = NoFA
    /\ vstack = <<>>
    /\ result_token = 0
    /\ lexer = NoFA
    /\ token_dfas = <<>>
    /\ NoParser
    /\ NoLanguage

\* a thread calls ask_parser_tables
Call(t) ==
    /\ threads[t].stack = <<>>
    /\ threads[t].ncalls < MaxCalls
    /\ threads' = [threads EXCEPT ![t].stack = <<frame("ask_parser_tables")>>,
                                  ![t].ncalls = @ + 1]
    /\ UNCHANGED statics

\* if (ptr.use_count() == 0)
Check(t) ==
    /\ threads[t].stack # <<>>
    /\ LET stack == threads[t].stack
           f == stack[Len(stack)]
       IN /\ f.pc = "check"
          /\ \E ptr \in ReadPtr(f.fn, t), is_null \in BOOLEAN :
                /\ ptr # Torn => (is_null <=> ptr = 0)
                /\ threads' = [threads EXCEPT ![t].stack =
                        set_top(stack, [f EXCEPT !.pc = IF is_null THEN "calls" ELSE "return"])]
    /\ UNCHANGED statics

\* the next call of the body, or the end of the calls
Calls(t) ==
    /\ threads[t].stack # <<>>
    /\ LET stack == threads[t].stack
           f == stack[Len(stack)]
       IN /\ f.pc = "calls"
          /\ IF f.called < Len(calls(f.fn))
             THEN /\ Len(stack) < MaxDepth
                  /\ threads' = [threads EXCEPT ![t].stack =
                          Append(set_top(stack, [f EXCEPT !.called = @ + 1]),
                                 frame(calls(f.fn)[f.called + 1]))]
             ELSE threads' = [threads EXCEPT ![t].stack =
                          set_top(stack, [f EXCEPT !.pc = IF f.fn \in memoized THEN "reset"
                                                          ELSE "return"])]
    /\ UNCHANGED statics

\* ptr.reset(new ...): the object is made and the write of ptr starts
Reset(t) ==
    /\ threads[t].stack # <<>>
    /\ LET stack == threads[t].stack
           f == stack[Len(stack)]
           object == statics.built[f.fn] + 1
       IN /\ f.pc = "reset"
          /\ statics' = [statics EXCEPT
                !.built[f.fn] = object,
                !.pending[f.fn] = object,
                !.writer[f.fn] = t,
                !.built_in = IF f.fn = "ask_parser_tables"
                             THEN Append(@, <<t, threads[t].ncalls>>) ELSE @]
          /\ threads' = [threads EXCEPT ![t].stack =
                  set_top(stack, [f EXCEPT !.pc = "store", !.object = object])]

\* the write of ptr ends
Store(t) ==
    /\ threads[t].stack # <<>>
    /\ LET stack == threads[t].stack
           f == stack[Len(stack)]
       IN /\ f.pc = "store"
          /\ statics' = [statics EXCEPT
                !.ptr[f.fn] = f.object,
                !.writer[f.fn] = IF @ = t THEN 0 ELSE @]
          /\ threads' = [threads EXCEPT ![t].stack = set_top(stack, [f EXCEPT !.pc = "return"])]

\* return ptr, or the return of a function that keeps no static
Return(t) ==
    /\ threads[t].stack # <<>>
    /\ LET stack == threads[t].stack
           f == stack[Len(stack)]
           rest == SubSeq(stack, 1, Len(stack) - 1)
       IN /\ f.pc = "return"
          /\ IF f.fn \in memoized
             THEN \E ptr \in ReadPtr(f.fn, t) :
                     threads' = [threads EXCEPT
                         ![t].stack = rest,
                         ![t].returned = Append(@, [fn |-> f.fn, ptr |-> ptr])]
             ELSE threads' = [threads EXCEPT ![t].stack = rest]
    /\ UNCHANGED statics

Step(t) ==
    \/ Call(t)
    \/ Check(t)
    \/ Calls(t)
    \/ Reset(t)
    \/ Store(t)
    \/ Return(t)

NextMemo ==
    /\ pc = "memo"
    /\ \E t \in DOMAIN threads : Step(t)
    /\ UNCHANGED <<pc, automaton_vars, parser_vars, language_vars>>

SpecMemo == InitMemo /\ [][NextMemo]_vars

\* the pointers the calls of ask_parser_tables by thread t returned
tables_returned(t) ==
    SelectSeq(threads[t].returned, LAMBDA r : r.fn = "ask_parser_tables")

\* the functions on the call stack of thread t
functions_called(t) == [i \in 1 .. Len(threads[t].stack) |-> threads[t].stack[i].fn]

(***************************************************************************)
(* C18: when one thread makes all the calls of ask_parser_tables, the      *)
(* tables are constructed once, in the first call; every call returns the  *)
(* tables the first call made; and while they are built neither            *)
(* ask_parser_tables nor build_dfa is entered.                             *)
(***************************************************************************)
C18_TablesBuiltOnceByFirstCall ==
    Len(threads) = 1 =>
        /\ statics.built["ask_parser_tables"] <= 1
        /\ \A i \in 1 .. Len(statics.built_in) : statics.built_in[i] = <<1, 1>>
        /\ \A i \in 1 .. Len(tables_returned(1)) :
              /\ tables_returned(1)[i].ptr = 1
              /\ statics.ptr["ask_parser_tables"] = 1
              /\ statics.built["ask_parser_tables"] = 1
        /\ \A i \in 1 .. Len(functions_called(1)) :
              /\ functions_called(1)[i] # "build_dfa"
              /\ functions_called(1)[i] = "ask_parser_tables" => i = 1

\* one thread made all its calls, and all of them returned the tables of
\* the first
C18_Witness ==
    /\ Len(threads) = 1
    /\ threads[1].ncalls = MaxCalls
    /\ threads[1].stack = <<>>
    /\ Len(tables_returned(1)) >= 2
    /\ \A i \in 1 .. Len(tables_returned(1)) : tables_returned(1)[i].ptr = 1

(***************************************************************************)
(* C19: when two threads call ask_parser_tables, the tables are built at   *)
(* most once and no call returns a pointer that is torn or that is         *)
(* replaced afterwards.                                                    *)
(***************************************************************************)
C19_InitializationIsGuarded ==
    Len(threads) = 2 =>
        /\ statics.built["ask_parser_tables"] <= 1
        /\ \A t \in 1 .. 2 : \A i \in 1 .. Len(tables_returned(t)) :
              /\ tables_returned(t)[i].ptr # Torn
              /\ tables_returned(t)[i].ptr = statics.ptr["ask_parser_tables"]

\* the reduce actions of the parser in progress: state, action, and the
\* state-config of the state whose configuration the action reduces
reduce_actions(p, g) ==
    UNION {{<<s, k, sc_i>> : k \in {a \in 1 .. Len(p.states[s].actions) :
                                      p.states[s].actions[a].kind = "reduce"},
                            sc_i \in {sc \in Range(p.states2state_configs[s]) :
                                         is_reduction(p.configs, g, config_of(p, sc))}}
           : s \in 1 .. Len(p.states)}

\* the state-config of a reduce action reduces the production of the action
same_production(p, r) ==
    At(p.configs, config_of(p, r[3])).production = p.states[r[1]].actions[r[2]].production

NotLR0 == \E s \in 1 .. Len(tracing.adequate) : ~tracing.adequate[s]

(***************************************************************************)
(* C20: when build_lalr1_parser returns for a grammar that is not LR(0),   *)
(* the context of every reduce action of every state is the context set    *)
(* that lane tracing computed for its state-config, which it completed.    *)
(***************************************************************************)
C20_EveryReduceContextIsReplaced ==
    (pc \in {"returned", "accepted"} /\ NotLR0) =>
        \A r \in reduce_actions(pip, grammar) :
            same_production(pip, r) =>
                /\ At(tracing.complete, r[3])
                /\ pip.states[r[1]].actions[r[2]].context = At(tracing.contexts, r[3])

\* a reduce action whose state-config lane tracing completed has the
\* context computed for that state-config; one whose state-config was not
\* completed is in a state that was adequate after LR(0) and keeps the
\* context set_lr0_contexts gave it
C20_CompletedReduceContextsAreReplaced ==
    (pc \in {"returned", "accepted"} /\ NotLR0) =>
        \A r \in reduce_actions(pip, grammar) :
            same_production(pip, r) =>
                IF At(tracing.complete, r[3])
                THEN pip.states[r[1]].actions[r[2]].context = At(tracing.contexts, r[3])
                ELSE /\ tracing.adequate[r[1]]
                     /\ pip.states[r[1]].actions[r[2]].context = Terminals(grammar)

\* a parser returned after lane tracing in which a state that was not
\* adequate after LR(0) has a reduce action with a computed context that is
\* not the placeholder, and a state that was adequate has a reduce action
\* that kept the placeholder
C20_Witness ==
    /\ pc = "returned"
    /\ NotLR0
    /\ \E r \in reduce_actions(pip, grammar) :
          /\ same_production(pip, r)
          /\ ~tracing.adequate[r[1]]
          /\ At(tracing.complete, r[3])
          /\ pip.states[r[1]].actions[r[2]].context = At(tracing.contexts, r[3])
          /\ pip.states[r[1]].actions[r[2]].context # Terminals(grammar)
    /\ \E r \in reduce_actions(pip, grammar) :
          /\ same_production(pip, r)
          /\ tracing.adequate[r[1]]
          /\ ~At(tracing.complete, r[3])
          /\ pip.states[r[1]].actions[r[2]].context = Terminals(grammar)
          /\ At(tracing.contexts, r[3]) # Terminals(grammar)

(***************************************************************************)
(* The originator graph and lane tracing, continued.                       *)
(***************************************************************************)
LaneTracing == "originator_graph" \in DOMAIN tracing

\* the state-configs reached from sc by zero or more transition-predecessor
\* hops and then one immediate-predecessor hop out of a start state-config
start_originators(p, g, sc) ==
    UNION {immediate_predecessors(p, g, tpp) :
              tpp \in {t \in transition_ancestors(p, g, {sc}, {sc}) :
                          dot_of(p.configs, config_of(p, t)) = 0}}

(***************************************************************************)
(* C21: make_originator_graph lists O as an originator of SC exactly when  *)
(* O is reached from SC by zero or more transition-predecessor hops and    *)
(* then one immediate-predecessor hop, and that hop starts from a          *)
(* state-config with dot = 0.                                              *)
(***************************************************************************)
C21_OriginatorsHopFromStartConfigs ==
    LaneTracing =>
        \A sc \in StateConfigs(pip) :
            Range(At(tracing.originator_graph, sc)) = start_originators(pip, grammar, sc)

(***************************************************************************)
(* SpecCombinators: maybe, plus and star applied to the automaton the      *)
(* reductions of a regular expression built (a primitive or the result of  *)
(* combinators), to its determinization, or to the simplified              *)
(* deterministic automaton.  After the call fa is the operand and the      *)
(* value stack holds the result.                                           *)
(***************************************************************************)
MaxOperandStates == 6   \* total states on the value stack before the call

\* the accepting states of a have no transition
AcceptingStatesAreFinal(a) ==
    \A state \in 0 .. (get_nstates(a) - 1), symbol \in 0 .. (a.ncols - 1) :
        accepts(a, state) # -1 => step(a, state, symbol) = -1

\* the automata a combinator may be called on in the current state
Operands == IF pc = "reduced" THEN {fa, dfa, sdfa} ELSE {}

Combine(name, result) ==
    /\ vstack' = <<result>>
    /\ pc' = name
    /\ dfa' = NoFA
    /\ sdfa' = NoFA
    /\ UNCHANGED <<lexer, token_dfas>>
    /\ UNCHANGED <<parser_vars, language_vars, memo_vars>>

ApplyMaybe ==
    \E a \in Operands, token \in Tokens :
        /\ fa' = a
        /\ result_token' = token
        /\ Combine("maybe", maybe(a, token))

ApplyPlus ==
    \E a \in Operands, token \in Tokens :
        /\ fa' = a
        /\ result_token' = token
        /\ Combine("plus", plus(a, token))

ApplyStar ==
    \E a \in Operands, token \in Tokens :
        /\ fa' = a
        /\ result_token' = token
        /\ Combine("star", star(a, token))

NextCombinators ==
    \/ ReduceSingleChar(MaxOperandStates)
    \/ ReduceAny(MaxOperandStates)
    \/ ReduceSingleSet(MaxOperandStates)
    \/ ReduceUnion(MaxOperandStates)
    \/ ReduceConcat
    \/ ReduceStar(MaxOperandStates)
    \/ ReducePlus(MaxOperandStates)
    \/ ReduceMaybe(MaxOperandStates)
    \/ ReduceRegex
    \/ ApplyMaybe
    \/ ApplyPlus
    \/ ApplyStar

SpecCombinators == InitRegex /\ [][NextCombinators]_vars

\* a accepts s with some token
Accepted(a, s) == TokensOn(a, s) # {}

RECURSIVE InStar(_, _)
\* s is a concatenation of zero or more strings a accepts
InStar(a, s) ==
    \/ s = <<>>
    \/ \E i \in 1 .. Len(s) :
          Accepted(a, SubSeq(s, 1, i)) /\ InStar(a, SubSeq(s, i + 1, Len(s)))

\* s is a concatenation of one or more strings a accepts
InPlus(a, s) ==
    \E i \in 0 .. Len(s) :
        Accepted(a, SubSeq(s, 1, i)) /\ InStar(a, SubSeq(s, i + 1, Len(s)))

\* the result on the value stack accepts the strings of the set, with
\* result_token, and no other
AcceptsExactly(in_language(_)) ==
    /\ ~top(vstack).asserted
    /\ \A s \in Strings :
          TokensOn(top(vstack), s) = IF in_language(s) THEN {result_token} ELSE {}

(***************************************************************************)
(* C22: maybe(A, tok) accepts the empty string and the strings A accepts,  *)
(* all with token tok, and nothing else, also when A is a deterministic    *)
(* automaton whose accepting states have transitions.                      *)
(***************************************************************************)
C22_MaybeAddsTheEmptyString ==
    pc = "maybe" => AcceptsExactly(LAMBDA s : s = <<>> \/ Accepted(fa, s))

(***************************************************************************)
(* C23: plus(A, tok) accepts the concatenations of one or more strings A   *)
(* accepts and star(A, tok) those of zero or more, with token tok, and     *)
(* nothing else.                                                           *)
(***************************************************************************)
C23_PlusAndStarRepeat ==
    /\ pc = "plus" => AcceptsExactly(LAMBDA s : InPlus(fa, s))
    /\ pc = "star" => AcceptsExactly(LAMBDA s : InStar(fa, s))

\* star and plus were applied to a deterministic automaton with an
\* accepting state that has a transition, and a string of two repetitions
\* is accepted
C23_Witness ==
    /\ pc \in {"plus", "star"}
    /\ fa.is_deterministic
    /\ ~AcceptingStatesAreFinal(fa)
    /\ \E s \in Strings : Len(s) >= 2 /\ ~Accepted(fa, s) /\ InPlus(fa, s)
                          /\ TokensOn(top(vstack), s) = {result_token}

\* a pass of the loop of compute_context_set returns, fails, or changes
\* LANE, STACK, the contexts or the flags
LanePassChangesState ==
    pc = "lane" =>
        \E L \in {lane_pass(tracing, pip, grammar)} :
            \/ L.returned
            \/ L.failure # ""
            \/ <<L.lane, L.stack, L.in_lane, L.contexts, L.complete>>
                   # <<tracing.lane, tracing.stack, tracing.in_lane, tracing.contexts,
                        tracing.complete>>

\* the loop of compute_context_set is not suspended forever: it is left, or
\* it makes another pass
LanePassesRun == []<>(pc # "lane") \/ []<><<TraceLane>>_vars

\* build_lalr1_parser when every pass of the loop of compute_context_set
\* that can run does run
SpecParserProgress == InitParser /\ [][NextParser]_vars /\ LanePassesRun

\* the loop of compute_context_set, once it runs, is left
LaneTracingStops == (pc = "lane") ~> (pc # "lane")

(***************************************************************************)
(* C24: compute_context_set terminates in one of two ways: every pass of   *)
(* its top-level loop makes progress, and a pass leaves the loop only by   *)
(* returning, with LANE shrunk back to the state-config it was called for, *)
(* or by stopping in the failure of an ambiguous grammar.                  *)
(***************************************************************************)
C24_LaneTracingTerminates ==
    /\ []LanePassChangesState
    /\ [][pc = "lane" =>
             \/ pc' = "lane"
             \/ pc' = "contexts" /\ tracing'.lane = <<tracing'.zeta_j_addr>>
             \/ pc' = "ambiguous"]_vars

\* a state-config reaches itself through the originator graph
on_originator_cycle(sc) ==
    LET RECURSIVE reach(_)
        reach(S) == LET T == S \cup UNION {Range(At(tracing.originator_graph, x)) : x \in S}
                    IN IF T = S THEN S ELSE reach(T)
    IN sc \in reach(Range(At(tracing.originator_graph, sc)))

\* compute_context_set returned for a state-config that has an originator
\* on a cycle of the originator graph, after a lane of several state-configs
C24_Witness ==
    /\ pc = "contexts"
    /\ tracing.zeta_j_addr >= 0
    /\ tracing.lane = <<tracing.zeta_j_addr>>
    /\ At(tracing.complete, tracing.zeta_j_addr)
    /\ \E sc \in Range(At(tracing.originator_graph, tracing.zeta_j_addr)) :
          /\ on_originator_cycle(sc)
          /\ At(tracing.complete, sc)
          /\ sc # tracing.zeta_j_addr

\* how many entries of v are x
Count(v, x) == Cardinality({i \in 1 .. Len(v) : v[i] = x})

(***************************************************************************)
(* C25: during lane tracing no assert of compute_context_set or of         *)
(* move_markers fails: LANE is never empty at                              *)
(* the top of the main loop or of the LANE-popping loop, STACK is not      *)
(* empty when the top of LANE is a MARKER, and LANE and STACK hold the     *)
(* same number of MARKERs, so that each MARKER popped from LANE has its    *)
(* MARKER on STACK.                                                        *)
(***************************************************************************)
C25_StackDiscipline ==
    /\ pc # "assertion"
    /\ pc = "lane" =>
          /\ tracing.lane # <<>>
          /\ top(tracing.lane) >= 0
          /\ Count(tracing.lane, MARKER) = Count(tracing.stack, MARKER)

\* a pass of the loop starts with a MARKER and a ZERO on LANE
C25_Witness ==
    /\ pc = "lane"
    /\ MARKER \in Range(tracing.lane)
    /\ ZERO \in Range(tracing.lane)
    /\ MARKER \in Range(tracing.stack)

(***************************************************************************)
(* C26: the two asserts of deal_with_tests_failed never fail: when a       *)
(* second originator of zeta fails the tests in a DO_LOOP, the top of LANE *)
(* is the first originator that failed and the entry below it is zeta.     *)
(***************************************************************************)
C26_SecondFailureFindsZetaBelow == pc # "second_failure"

\* the state-configs that lane tracing has marked COMPLETE
completed == IF LaneTracing
             THEN {sc \in StateConfigs(pip) : At(tracing.complete, sc)}
             ELSE {}

\* the state-configs heuristic propagation from tau_addr writes to
siblings(p, g, tau_addr) ==
    {tau_prime_addr \in StateConfigs(p) \ {tau_addr} :
        /\ At(p.state_configs, tau_prime_addr).state = At(p.state_configs, tau_addr).state
        /\ dot_of(p.configs, config_of(p, tau_prime_addr)) = 0
        /\ dot_of(p.configs, config_of(p, tau_addr)) = 0
        /\ prod_of(p.configs, g, config_of(p, tau_prime_addr)).lhs
               = prod_of(p.configs, g, config_of(p, tau_addr)).lhs}

RECURSIVE rewritten_in_popping(_, _, _, _)
\* the state-configs that are COMPLETE when a step of the LANE-popping loop
\* begins and that are siblings of the state-config the step pops
rewritten_in_popping(L, zeta_j_addr, p, g) ==
    IF L.failure # "" \/ ~L.keep_lane_popping \/ L.lane = <<>> THEN {}
    ELSE IF top(L.lane) = MARKER
    THEN rewritten_in_popping(stack_popping(L), zeta_j_addr, p, g)
    ELSE IF top(L.lane) = ZERO
    THEN rewritten_in_popping([L EXCEPT !.lane = pop(@, 1)], zeta_j_addr, p, g)
    ELSE LET tau_addr == top(L.lane)
             done == heuristic_propagation_of_context_sets(
                         [L EXCEPT !.in_lane = @ \ {tau_addr},
                                   !.complete[tau_addr + 1] = TRUE],
                         tau_addr, p, g)
         IN {sc \in siblings(p, g, tau_addr) : At(L.complete, sc)}
            \cup (IF L.lane = <<zeta_j_addr>> THEN {}
                  ELSE rewritten_in_popping([done EXCEPT !.lane = pop(@, 1)],
                                            zeta_j_addr, p, g))

RECURSIVE overwritten_in_popping(_, _, _, _)
\* the state-configs that are COMPLETE when a step of the LANE-popping loop
\* begins and whose context set that step changes
overwritten_in_popping(L, zeta_j_addr, p, g) ==
    IF L.failure # "" \/ ~L.keep_lane_popping \/ L.lane = <<>> THEN {}
    ELSE IF top(L.lane) = MARKER
    THEN overwritten_in_popping(stack_popping(L), zeta_j_addr, p, g)
    ELSE IF top(L.lane) = ZERO
    THEN overwritten_in_popping([L EXCEPT !.lane = pop(@, 1)], zeta_j_addr, p, g)
    ELSE LET tau_addr == top(L.lane)
             done == heuristic_propagation_of_context_sets(
                         [L EXCEPT !.in_lane = @ \ {tau_addr},
                                   !.complete[tau_addr + 1] = TRUE],
                         tau_addr, p, g)
         IN {sc \in StateConfigs(p) :
                At(L.complete, sc) /\ At(done.contexts, sc) # At(L.contexts, sc)}
            \cup (IF L.lane = <<zeta_j_addr>> THEN {}
                  ELSE overwritten_in_popping([done EXCEPT !.lane = pop(@, 1)],
                                              zeta_j_addr, p, g))

\* the DO_LOOP of the pass of compute_context_set that starts from t
do_loop_of_pass(t, p, g) ==
    do_loop([lane |-> t.lane, stack |-> t.stack, in_lane |-> t.in_lane,
             contexts |-> t.contexts, complete |-> t.complete,
             tests_failed |-> FALSE, num_originators_failed |-> 0,
             first_originator_failed |-> -1,
             failure |-> "", keep_lane_popping |-> TRUE, returned |-> FALSE],
            At(t.originator_graph, top(t.lane)), top(t.lane), Len(t.lane) - 1,
            p, g, t.first_sets)

\* no step of the LANE popping of the pass that is about to run changes the
\* context set of a state-config that is COMPLETE before that step
PoppingKeepsCompleteContexts ==
    pc = "lane" =>
        \E looped \in {do_loop_of_pass(tracing, pip, grammar)} :
            \/ looped.failure # ""
            \/ looped.tests_failed
            \/ overwritten_in_popping(looped, tracing.zeta_j_addr, pip, grammar) = {}

(***************************************************************************)
(* C27: the context set of a state-config that is marked COMPLETE never    *)
(* changes again: no step of the build changes it (the DO_LOOP of a pass   *)
(* of compute_context_set, with its context_adding_routine, and the final  *)
(* loop of build_lalr1_parser included), and inside the LANE popping of a  *)
(* pass heuristic propagation never replaces it by a different set.        *)
(***************************************************************************)
C27_CompleteContextsAreFinal ==
    /\ []PoppingKeepsCompleteContexts
    /\ [][\A sc \in completed :
             At(tracing'.contexts, sc) = At(tracing.contexts, sc)]_vars

\* the pass that is about to run adds contexts to LANE in its DO_LOOP while
\* an originator of zeta is COMPLETE with a context, and its LANE popping
\* propagates the context of a popped state-config to a sibling that is
\* already COMPLETE with a context
C27_Witness ==
    /\ pc = "lane"
    /\ \E sc \in completed :
          /\ At(tracing.contexts, sc) # {}
          /\ sc \in Range(At(tracing.originator_graph, top(tracing.lane)))
    /\ \E looped \in {do_loop_of_pass(tracing, pip, grammar)} :
          /\ looped.failure = ""
          /\ ~looped.tests_failed
          /\ looped.contexts # tracing.contexts
          /\ \E sc \in rewritten_in_popping(looped, tracing.zeta_j_addr, pip, grammar) :
                At(looped.contexts, sc) # {}

RECURSIVE lane_passes(_, _, _)
\* the passes of the top-level loop of compute_context_set from t on, up to
\* its return or its failure
lane_passes(t, p, g) ==
    only({IF L.failure # "" THEN [failure |-> L.failure, contexts |-> L.contexts]
          ELSE IF L.returned THEN [failure |-> "", contexts |-> L.contexts]
          ELSE lane_passes([t EXCEPT !.lane = L.lane, !.stack = L.stack,
                                     !.in_lane = L.in_lane, !.contexts = L.contexts,
                                     !.complete = L.complete], p, g) :
          L \in {lane_pass(t, p, g)}})

\* compute_context_set called for zeta_j_addr before any other lane is traced
compute_context_set(p, g, adequate, zeta_j_addr) ==
    lane_passes([begin_lane_tracing(p, g, adequate) EXCEPT
                    !.zeta_j_addr = zeta_j_addr, !.lane = <<zeta_j_addr>>,
                    !.in_lane = {zeta_j_addr}], p, g)

(***************************************************************************)
(* C28: the state-configs of one state with dot = 0 and the same left-hand *)
(* side have the same originator list, and one that is COMPLETE between    *)
(* two lanes holds the context set that compute_context_set computes when  *)
(* it is called for that state-config itself.                              *)
(***************************************************************************)
C28_SiblingsShareOriginatorsAndContext ==
    pc = "contexts" =>
        \A tau_addr \in StateConfigs(pip) : \A sc \in siblings(pip, grammar, tau_addr) :
            /\ At(tracing.originator_graph, sc) = At(tracing.originator_graph, tau_addr)
            /\ At(tracing.complete, sc) =>
                  \E own \in {compute_context_set(pip, grammar, tracing.adequate, sc)} :
                      own.failure = "" => At(tracing.contexts, sc) = At(own.contexts, sc)

\* between two lanes a state-config with a terminal after its dot, which is
\* never in LANE, is COMPLETE with a context of two terminals that it got
\* from a sibling, and compute_context_set returns when called for it
C28_Witness ==
    /\ pc = "contexts"
    /\ \E tau_addr \in StateConfigs(pip) : \E sc \in siblings(pip, grammar, tau_addr) :
          /\ ~is_reduction(pip.configs, grammar, config_of(pip, sc))
          /\ is_terminal(grammar, symbol_after_dot(pip.configs, grammar, config_of(pip, sc)))
          /\ At(tracing.complete, sc)
          /\ Cardinality(At(tracing.contexts, sc)) >= 2
          /\ At(tracing.originator_graph, sc) # <<>>
          /\ compute_context_set(pip, grammar, tracing.adequate, sc).failure = ""

(***************************************************************************)
(* C29: for a language that declares no INDENT token and at most one       *)
(* NEWLINE and at most one DEDENT token, build_indent_info does not throw  *)
(* and returns is_sensitive = false and indent_token = -1.                 *)
(***************************************************************************)
C29_NoIndentNeverFails ==
    (/\ indent_info # <<>>
     /\ Declared("INDENT") = {}
     /\ Cardinality(Declared("NEWLINE")) <= 1
     /\ Cardinality(Declared("DEDENT")) <= 1)
    => /\ ~Thrown(indent_info)
       /\ indent_info.is_sensitive = FALSE
       /\ indent_info.indent_token = -1

RECURSIVE closure_of(_, _, _)
\* the least set of configurations that holds configs and, with a
\* configuration that has a nonterminal after its dot, every configuration
\* with dot = 0 of a production of that nonterminal
closure_of(configs, cs, g) ==
    LET called == {symbol_after_dot(cs, g, c) : c \in {c \in configs : ~is_reduction(cs, g, c)}}
        more == {c \in 0 .. (Len(cs) - 1) :
                    dot_of(cs, c) = 0 /\ prod_of(cs, g, c).lhs \in called
                    /\ ~is_terminal(g, prod_of(cs, g, c).lhs)}
    IN IF more \subseteq configs THEN configs ELSE closure_of(configs \cup more, cs, g)

\* the symbols that follow a dot in the state
symbols_after_dots(state, cs, g) ==
    {symbol_after_dot(cs, g, c) : c \in {c \in Range(state.configs) : ~is_reduction(cs, g, c)}}

\* the configurations of the state with symbol after the dot, advanced
advanced(state, symbol, cs, g) ==
    {c + 1 : c \in {c \in Range(state.configs) :
                       ~is_reduction(cs, g, c) /\ symbol_after_dot(cs, g, c) = symbol}}

(***************************************************************************)
(* C30: build_lr0_parser returns for every grammar, and in the automaton   *)
(* it returns every state's configuration list is closed and ascending, no *)
(* two states have the same configurations, and for every symbol X after a *)
(* dot of a state the state has exactly one shift action with context {X}, *)
(* to the state whose configurations are the closure of the advanced ones. *)
(***************************************************************************)
C30_LR0AutomatonIsCanonical ==
    /\ pc = "grammar" =>
          \E built \in {make_parser_in_progress(grammar)} :
              Len(built.states) \in 1 .. 2 ^ Len(built.configs)
    /\ pip # <<>> =>
          LET cs == pip.configs
              states == pip.states
          IN /\ \A s \in 1 .. Len(states) :
                   /\ closure_of(Range(states[s].configs), cs, grammar)
                          = Range(states[s].configs)
                   /\ \A i, j \in 1 .. Len(states[s].configs) :
                          i < j => states[s].configs[i] < states[s].configs[j]
             /\ \A s, t \in 1 .. Len(states) :
                   s # t => states[s].configs # states[t].configs
             /\ \A s \in 1 .. Len(states) :
                   \A X \in symbols_after_dots(states[s], cs, grammar) :
                       LET shifts == {k \in 1 .. Len(states[s].actions) :
                                         /\ states[s].actions[k].kind = "shift"
                                         /\ states[s].actions[k].context = {X}}
                       IN /\ Cardinality(shifts) = 1
                          /\ \A k \in shifts :
                                /\ states[s].actions[k].next_state \in 0 .. (Len(states) - 1)
                                /\ Range(At(states, states[s].actions[k].next_state).configs)
                                       = closure_of(advanced(states[s], X, cs, grammar),
                                                    cs, grammar)
             /\ \A s \in 1 .. Len(states) : \A k \in 1 .. Len(states[s].actions) :
                   states[s].actions[k].kind = "shift" =>
                       \E X \in symbols_after_dots(states[s], cs, grammar) :
                           states[s].actions[k].context = {X}

\* the automaton has a state that two shift actions of different states lead
\* to, so that it was found again by its configurations, and a state that
\* is larger than the advanced configurations it was closed from
C30_Witness ==
    /\ pip # <<>>
    /\ Len(pip.states) >= 4
    /\ \E s, t \in 1 .. Len(pip.states) :
          /\ s # t
          /\ \E i \in 1 .. Len(pip.states[s].actions) :
                \E j \in 1 .. Len(pip.states[t].actions) :
                    /\ pip.states[s].actions[i].kind = "shift"
                    /\ pip.states[t].actions[j].kind = "shift"
                    /\ pip.states[s].actions[i].next_state = pip.states[t].actions[j].next_state
    /\ \E s \in 1 .. Len(pip.states) :
          \E X \in symbols_after_dots(pip.states[s], pip.configs, grammar) :
              \E k \in 1 .. Len(pip.states[s].actions) :
                  /\ pip.states[s].actions[k].context = {X}
                  /\ pip.states[s].actions[k].kind = "shift"
                  /\ Range(At(pip.states, pip.states[s].actions[k].next_state).configs)
                         # advanced(pip.states[s], X, pip.configs, grammar)
====
